---- MODULE Spec2Model ----
(***************************************************************************)
(* Model of the lawyer-bot-rag ingestion, retrieval and answer pipeline:   *)
(*   - LegalSearcher                      (src/src/retrieval/searcher.py)  *)
(*   - VakilBot.answer                    (src/src/rag/vakilbot.py)        *)
(*   - LegalChunker.chunk_document        (src/src/ingestion/chunker.py)   *)
(*   - the disk embedding cache, embed_with_cache and run_full_ingestion   *)
(*                                        (src/src/ingestion/run_ingestion.py) *)
(*   - LegalEmbedder.embed_texts and its retry loop                        *)
(*                                        (src/src/ingestion/embedder.py)  *)
(*   - the sections of IndianLegalParser  (src/src/ingestion/parser.py),   *)
(*     their chunk ids and the bulk request that indexes them              *)
(*                                                                         *)
(* Texts are sequences of atoms.  An atom is the section header, one       *)
(* sentence unit of the section, or a single blank.  The tokenizer         *)
(* (tiktoken) is not part of the repository: count_tokens is modelled as   *)
(* the sum of the token counts of the atoms of a text, a blank counting    *)
(* zero.                                                                   *)
(***************************************************************************)
EXTENDS Integers, Sequences, FiniteSets, TLC

\* ---------------------------------------------------------------- bounds
MaxSentences == 3        \* sentence units in a section
MaxSentenceTokens == 3   \* tokens of one sentence unit
MaxHeaderTokens == 2     \* tokens of the section header
MinBudget == 3           \* smallest max_tokens tried
MaxBudget == 5           \* largest max_tokens tried
MaxOverlap == 3          \* largest overlap_tokens tried
MaxTexts == 3            \* chunks in one ingestion run
MaxBatchSize == 2        \* largest batch_size tried
MaxK == 4                \* largest k asked of a search
MaxStreamChunks == 2     \* chunks of one generation stream
MaxSections == 2         \* sections the parser finds in the corpus

VARIABLES
    \* --- chunker ---
    doc,             \* the LegalDocument given to chunk_document
    max_tokens,      \* LegalChunker.max_tokens
    overlap_tokens,  \* LegalChunker.overlap_tokens
    chunks,          \* the list chunk_document returned
    cpc,             \* "ready": not chunked yet, "done": chunk_document returned
    \* --- ingestion run (run_full_ingestion) ---
    batch_size,      \* LegalEmbedder.batch_size
    use_local,       \* LegalEmbedder.use_local
    disk,            \* the file at CACHE_PATH
    flushed,         \* the map written by the last completed _save_cache
    cache,           \* embedding_cache, the in-memory dict
    texts,           \* the texts of the run's chunks
    results,         \* embed_with_cache: results
    miss_indices,    \* embed_with_cache: miss_indices (positions counted from 1)
    miss_texts,      \* embed_with_cache: miss_texts
    all_embeddings,  \* embed_texts: all_embeddings
    bi,              \* embed_texts: i, the start of the batch in progress
    attempt,         \* _embed_batch_openai: attempt
    last_err,        \* _embed_batch_openai: last_err
    calls,           \* the run's calls to the embedding model, in order
    sleeps,          \* the run's time.sleep calls, in order, in milliseconds
    raised,          \* the exception that ended the run, <<>> when none
    rerun,           \* the run repeats the texts of a run that completed just before
    ipc,             \* position of the ingestion process
    \* --- retrieval (LegalSearcher) ---
    s_embedder,      \* LegalSearcher.embedder
    s_call,          \* the method called last and its arguments
    s_body,          \* the request the call sent to Elasticsearch
    s_lex,           \* the lexical ranking Elasticsearch computed for it
    s_vec,           \* the vector ranking Elasticsearch computed for it
    s_hits,          \* the hits of the response
    s_ret,           \* the value the call returned
    spc,             \* position of the searcher
    \* --- answering (VakilBot.answer) ---
    a_k,             \* VakilBot.k
    a_query,         \* answer: query
    a_act_filter,    \* answer: act_filter
    a_stream,        \* answer: stream
    a_intent,        \* answer: intent
    a_rewritten,     \* answer: rewritten_query
    a_searches,      \* the hybrid_search calls answer made, in order
    a_results,       \* answer: results
    a_prompt,        \* answer: user_prompt
    a_llm,           \* the calls to the text-generation collaborator, in order
    a_produced,      \* the chunks the generation stream has produced, in order
    a_out,           \* the items the caller has received from the generator
    a_ci,            \* _stream_response: citation lines yielded
    a_ret,           \* the value answer returned
    a_raised,        \* the exception that reached the caller, <<>> when none
    apc,             \* position of the answer pipeline
    \* --- ingestion workers sharing the cache file ---
    w_texts,         \* per worker: the texts of its chunks
    w_cache,         \* per worker: embedding_cache, its in-memory dict
    w_pc,            \* per worker: position in run_full_ingestion
    \* --- ingestion of a corpus into the index ---
    k_docs,          \* the sections parse_pdf returned, over all PDFs, in order
    k_chunks,        \* all_chunks
    es_index,        \* the Elasticsearch index: _id -> _source
    k_bulk,          \* what helpers.bulk returned: success and errors
    k_count,         \* the count of the final verification
    kpc              \* position of the corpus run

chunkVars == <<doc, max_tokens, overlap_tokens, chunks, cpc>>
ingestVars == <<batch_size, use_local, disk, flushed, cache, texts, results,
                miss_indices, miss_texts, all_embeddings, bi, attempt, last_err,
                calls, sleeps, raised, rerun, ipc>>
searchVars == <<s_embedder, s_call, s_body, s_lex, s_vec, s_hits, s_ret, spc>>
answerVars == <<a_k, a_query, a_act_filter, a_stream, a_intent, a_rewritten,
                a_searches, a_results, a_prompt, a_llm, a_produced, a_out, a_ci,
                a_ret, a_raised, apc>>
serveVars == <<searchVars, answerVars>>
workerVars == <<w_texts, w_cache, w_pc>>
corpusVars == <<k_docs, k_chunks, es_index, k_bulk, k_count, kpc>>
sideVars == <<workerVars, corpusVars>>
vars == <<chunkVars, ingestVars, serveVars, sideVars>>

\* ---------------------------------------------------------------- texts
SP == [k |-> "sp", n |-> 0]
HDR == [k |-> "h", n |-> 0]
Sent(i) == [k |-> "s", n |-> i]

RECURSIVE Flatten(_)
\* concatenation of a sequence of texts
Flatten(parts) ==
    IF parts = <<>> THEN <<>> ELSE Head(parts) \o Flatten(Tail(parts))

RECURSIVE JoinSp(_)
\* " ".join(parts)
JoinSp(parts) ==
    IF parts = <<>> THEN <<>>
    ELSE IF Len(parts) = 1 THEN parts[1]
    ELSE parts[1] \o <<SP>> \o JoinSp(Tail(parts))

RECURSIVE SplitAt(_, _)
\* re.split on blanks: the pieces between blanks, `piece` being the one in progress
SplitAt(text, piece) ==
    IF text = <<>> THEN <<piece>>
    ELSE IF Head(text) = SP THEN <<piece>> \o SplitAt(Tail(text), <<>>)
    ELSE SplitAt(Tail(text), Append(piece, Head(text)))

\* _split_into_sentences: split, strip, drop the empty pieces
split_into_sentences(text) ==
    SelectSeq(SplitAt(text, <<>>), LAMBDA p : p # <<>>)

\* count_tokens of one atom under the document's tokenization
AtomTokens(d, a) ==
    IF a.k = "s" THEN d.sent_tokens[a.n]
    ELSE IF a.k = "h" THEN d.header_tokens
    ELSE 0

RECURSIVE count_tokens(_, _)
count_tokens(d, text) ==
    IF text = <<>> THEN 0
    ELSE AtomTokens(d, Head(text)) + count_tokens(d, Tail(text))

\* _build_section_header: one header text per document
build_section_header(d) == <<HDR>>

\* _make_chunk: the fields of Chunk the chunker computes
make_chunk(d, content, chunk_index, total_chunks) ==
    [content |-> content, chunk_index |-> chunk_index, total_chunks |-> total_chunks]

\* ---------------------------------------------------------------- chunk_document
\* faulty variant: the overlap test with <= in place of <
FitsOverlapLe(overlap_count, sent_tokens) ==
    overlap_count + sent_tokens <= overlap_tokens

\* line 85: does one more sentence fit the overlap budget
FitsOverlap(overlap_count, sent_tokens) ==
    overlap_count + sent_tokens < overlap_tokens

RECURSIVE Backtrack(_, _, _, _, _)
\* lines 82-89: walk the closed chunk's items backwards from item j
Backtrack(d, cur, j, overlap_text, overlap_count) ==
    IF j = 0 THEN overlap_text
    ELSE IF FitsOverlap(overlap_count, count_tokens(d, cur[j]))
         THEN Backtrack(d, cur, j - 1, cur[j] \o <<SP>> \o overlap_text,
                        overlap_count + count_tokens(d, cur[j]))
         ELSE overlap_text

\* line 91: the items the next chunk starts with
SeedNext(overlap_text) ==
    IF overlap_text # <<>> THEN <<overlap_text>> ELSE <<>>

\* faulty variant: the sentence replaces the items collected so far
AccumulateReplace(cur, sentence) == <<sentence>>

\* line 94: current_chunk_sentences.append(sentence)
Accumulate(cur, sentence) == Append(cur, sentence)

\* lines 77 and 100: the text of a chunk
ChunkText(d, cur) == build_section_header(d) \o JoinSp(cur)

RECURSIVE ChunkLoop(_, _, _, _, _, _, _)
\* lines 71-101: the while loop and the last chunk
ChunkLoop(d, sentences, i, cur, count, chunk_index, out) ==
    IF i > Len(sentences)
    THEN IF cur # <<>>
         THEN Append(out, make_chunk(d, ChunkText(d, cur), chunk_index, -1))
         ELSE out
    ELSE LET sentence == sentences[i]
             sentence_tokens == count_tokens(d, sentence)
         IN  IF count + sentence_tokens > max_tokens /\ cur # <<>>
             THEN LET overlap_text == Backtrack(d, cur, Len(cur), <<>>, 0)
                      seeded == SeedNext(overlap_text)
                      header_tokens == count_tokens(d, build_section_header(d))
                  IN  ChunkLoop(d, sentences, i + 1,
                                Accumulate(seeded, sentence),
                                header_tokens + count_tokens(d, overlap_text)
                                    + sentence_tokens,
                                chunk_index + 1,
                                Append(out, make_chunk(d, ChunkText(d, cur),
                                                       chunk_index, -1)))
             ELSE ChunkLoop(d, sentences, i + 1, Accumulate(cur, sentence),
                            count + sentence_tokens, chunk_index, out)

\* faulty variant: the provisional total_chunks is left in place
FixTotalsNone(cs) == cs

\* lines 104-106: backfill total_chunks
FixTotals(cs) ==
    [i \in 1..Len(cs) |-> [cs[i] EXCEPT !.total_chunks = Len(cs)]]

\* lines 48-108
chunk_document(d) ==
    LET section_header == build_section_header(d)
        header_tokens == count_tokens(d, section_header)
        content_tokens == count_tokens(d, d.content)
    IN  IF content_tokens <= max_tokens
        THEN <<make_chunk(d, d.content, 0, 1)>>
        ELSE FixTotals(ChunkLoop(d, split_into_sentences(d.content), 1, <<>>,
                                 header_tokens, 0, <<>>))

\* ---------------------------------------------------------------- embedding cache
\* the texts a run can see: the contents of the chunks of the corpus
Texts == {"a", "b", "c"}

None == <<>>
EmptyMap == [h \in {} |-> None]

\* _text_hash: sha256 of the text, a different digest for every text
text_hash(t) == <<"sha256", t>>

\* the embedding model: one vector per input string
Encode(s) == <<"vec", s>>

\* client.embeddings.create: the vectors of response.data, in input order
OpenAIVectors(ts) == [k \in 1..Len(ts) |-> Encode(ts[k])]

\* _embed_batch_local: encode "passage: " + text
LocalVectors(ts) == [k \in 1..Len(ts) |-> Encode("passage: " \o ts[k])]

\* cache[h] = v
MapPut(c, h, v) == [x \in DOMAIN c \cup {h} |-> IF x = h THEN v ELSE c[x]]

\* lines 51-53: the cached vector of a text, None on a miss
Lookup(c, t) == IF text_hash(t) \in DOMAIN c THEN c[text_hash(t)] ELSE None

\* lines 46, 50-53: results after the scan
ScanResults(ts, c) == [i \in 1..Len(ts) |-> Lookup(c, ts[i])]

\* faulty variant: every text is taken for a miss
IsMissAlways(c, t) == TRUE

\* line 52, negated: the text's hash is not in the cache
IsMiss(c, t) == text_hash(t) \notin DOMAIN c

RECURSIVE MissFrom(_, _, _)
\* lines 50-56: the positions of the misses from position i on
MissFrom(ts, c, i) ==
    IF i > Len(ts) THEN <<>>
    ELSE IF IsMiss(c, ts[i]) THEN <<i>> \o MissFrom(ts, c, i + 1)
    ELSE MissFrom(ts, c, i + 1)

MissIndices(ts, c) == MissFrom(ts, c, 1)
MissTexts(ts, c) == [k \in 1..Len(MissIndices(ts, c)) |-> ts[MissIndices(ts, c)[k]]]

Min(a, b) == IF a <= b THEN a ELSE b

\* faulty variant: every miss is given the first new embedding
ZippedEmbeddingFirst(embs, k) == embs[1]

\* line 62: the embedding zip pairs with the k-th miss
ZippedEmbedding(embs, k) == embs[k]

RECURSIVE StoreFrom(_, _, _, _, _, _)
\* lines 62-64: the zip loop from its k-th triple on; gives cache and results
StoreFrom(c, res, idxs, mts, embs, k) ==
    IF k > Min(Len(idxs), Min(Len(mts), Len(embs)))
    THEN [cache |-> c, results |-> res]
    ELSE StoreFrom(MapPut(c, text_hash(mts[k]), ZippedEmbedding(embs, k)),
                   [res EXCEPT ![idxs[k]] = ZippedEmbedding(embs, k)],
                   idxs, mts, embs, k + 1)

\* faulty variant: the slice runs one text into the next batch
BatchAtOverlap(ts, i) == SubSeq(ts, i + 1, Min(i + batch_size + 1, Len(ts)))

\* line 68 of embedder.py: texts[i:i + batch_size], i counted from 0
BatchAt(ts, i) == SubSeq(ts, i + 1, Min(i + batch_size, Len(ts)))

\* ---------------------------------------------------------------- retry loop
\* line 37 of embedder.py: range(3)
RetryAttempts == 3

BackoffBaseMs == 4000
CushionMs == 100

RECURSIVE Pow2(_)
Pow2(n) == IF n = 0 THEN 1 ELSE 2 * Pow2(n - 1)

\* line 47 of embedder.py: wait = 4 * (2 ** attempt), in milliseconds
BackoffWait(a) == BackoffBaseMs * Pow2(a)

\* faulty variant: one attempt more before giving up
ExhaustedLate(a) == a + 1 > RetryAttempts

\* lines 37 and 50 of embedder.py: attempt a was the last of range(3)
Exhausted(a) == a + 1 >= RetryAttempts

\* the exception of one failed call
CallError(i, a) == <<"error", i, a>>

\* ---------------------------------------------------------------- ingestion run
TextLists == UNION { [1..n -> Texts] : n \in 0..MaxTexts }

Running == {"embed", "batch", "store", "save", "dump", "index"}

\* no ingestion process has run
IngestIdle ==
    /\ disk = [state |-> "absent", data |-> EmptyMap]
    /\ flushed = EmptyMap
    /\ cache = EmptyMap
    /\ texts = <<>>
    /\ results = <<>>
    /\ miss_indices = <<>>
    /\ miss_texts = <<>>
    /\ all_embeddings = <<>>
    /\ bi = 0
    /\ attempt = 0
    /\ last_err = None
    /\ calls = <<>>
    /\ sleeps = <<>>
    /\ raised = None
    /\ rerun = FALSE
    /\ ipc = "idle"

\* no section has been given to the chunker
ChunkIdle ==
    /\ doc = [content |-> <<>>, sent_tokens |-> [i \in 1..MaxSentences |-> 1],
              header_tokens |-> 1]
    /\ max_tokens = MaxBudget
    /\ overlap_tokens = 0
    /\ chunks = <<>>
    /\ cpc = "idle"

\* no LegalSearcher has been constructed
SearchIdle ==
    /\ s_embedder = <<>>
    /\ s_call = <<>>
    /\ s_body = <<>>
    /\ s_lex = <<>>
    /\ s_vec = <<>>
    /\ s_hits = <<>>
    /\ s_ret = <<>>
    /\ spc = "idle"

\* no query has been given to VakilBot.answer
AnswerIdle ==
    /\ a_query = <<>>
    /\ a_act_filter = <<>>
    /\ a_stream = FALSE
    /\ a_intent = <<>>
    /\ a_rewritten = <<>>
    /\ a_searches = <<>>
    /\ a_results = <<>>
    /\ a_prompt = <<>>
    /\ a_llm = <<>>
    /\ a_produced = <<>>
    /\ a_out = <<>>
    /\ a_ci = 0
    /\ a_ret = <<>>
    /\ a_raised = <<>>

\* the query service is not running
ServeIdle == SearchIdle /\ a_k = 1 /\ AnswerIdle /\ apc = "idle"

\* no second ingestion process shares the cache file
WorkersIdle ==
    /\ w_texts = <<>>
    /\ w_cache = <<>>
    /\ w_pc = <<>>

\* no corpus is being parsed and indexed
CorpusIdle ==
    /\ k_docs = <<>>
    /\ k_chunks = <<>>
    /\ es_index = EmptyMap
    /\ k_bulk = <<>>
    /\ k_count = 0
    /\ kpc = "idle"

SideIdle == WorkersIdle /\ CorpusIdle

IngestInit ==
    /\ batch_size \in 1..MaxBatchSize
    /\ use_local \in BOOLEAN
    /\ IngestIdle
    /\ ChunkIdle
    /\ SideIdle
    /\ ServeIdle

\* _load_cache: the map in the file, {} when there is no file; a file cut short
\* makes pickle.load raise
LoadCache ==
    IF disk.state = "absent" THEN [ok |-> TRUE, cache |-> EmptyMap]
    ELSE IF disk.state = "complete" THEN [ok |-> TRUE, cache |-> disk.data]
    ELSE [ok |-> FALSE, cache |-> EmptyMap]

\* run_full_ingestion, lines 75-157: a new process loads the cache and builds
\* the texts of the corpus's chunks
StartRun ==
    /\ ipc \in {"idle", "finished", "aborted"}
    /\ \E ts \in TextLists :
          /\ texts' = IF LoadCache.ok THEN ts ELSE <<>>
          /\ rerun' = (LoadCache.ok /\ ipc = "finished" /\ ts = texts)
    /\ cache' = LoadCache.cache
    /\ ipc' = IF LoadCache.ok THEN "embed" ELSE "error"
    /\ raised' = IF LoadCache.ok THEN None ELSE <<"UnpicklingError">>
    /\ results' = <<>>
    /\ miss_indices' = <<>>
    /\ miss_texts' = <<>>
    /\ all_embeddings' = <<>>
    /\ bi' = 0
    /\ attempt' = 0
    /\ last_err' = None
    /\ calls' = <<>>
    /\ sleeps' = <<>>
    /\ UNCHANGED <<batch_size, use_local, disk, flushed, chunkVars, serveVars, sideVars>>

\* embed_with_cache, lines 46-61: scan the texts against the cache; with no miss
\* the results are returned, otherwise embed_texts starts on the misses
EmbedScan ==
    /\ ipc = "embed"
    /\ results' = ScanResults(texts, cache)
    /\ miss_indices' = MissIndices(texts, cache)
    /\ miss_texts' = MissTexts(texts, cache)
    /\ ipc' = IF MissTexts(texts, cache) = <<>> THEN "save" ELSE "batch"
    /\ UNCHANGED <<batch_size, use_local, disk, flushed, cache, texts,
                   all_embeddings, bi, attempt, last_err, calls, sleeps, raised,
                   rerun, chunkVars, serveVars, sideVars>>

\* the state after a batch's vectors came back (embed_texts, lines 75-81)
BatchDone(vectors) ==
    /\ all_embeddings' = all_embeddings \o vectors
    /\ bi' = bi + batch_size
    /\ attempt' = 0
    /\ ipc' = IF bi + batch_size < Len(miss_texts) THEN "batch" ELSE "store"

\* _embed_batch_openai, lines 38-44: the remote call succeeds
OpenAICallOk ==
    /\ ipc = "batch"
    /\ ~use_local
    /\ LET batch == BatchAt(miss_texts, bi)
       IN  /\ calls' = Append(calls, [batch |-> bi, attempt |-> attempt,
                                      texts |-> batch, ok |-> TRUE,
                                      result |-> OpenAIVectors(batch)])
           /\ BatchDone(OpenAIVectors(batch))
    /\ sleeps' = IF bi + batch_size < Len(miss_texts)
                 THEN Append(sleeps, [why |-> "cushion", ms |-> CushionMs])
                 ELSE sleeps
    /\ UNCHANGED <<batch_size, use_local, disk, flushed, cache, texts, results,
                   miss_indices, miss_texts, last_err, raised, rerun, chunkVars, serveVars, sideVars>>

\* _embed_batch_openai, lines 45-50: the remote call fails; the loop sleeps and
\* goes on, and raises last_err once range(3) is used up
OpenAICallFail ==
    /\ ipc = "batch"
    /\ ~use_local
    /\ calls' = Append(calls, [batch |-> bi, attempt |-> attempt,
                               texts |-> BatchAt(miss_texts, bi), ok |-> FALSE,
                               result |-> CallError(bi, attempt)])
    /\ last_err' = CallError(bi, attempt)
    /\ sleeps' = Append(sleeps, [why |-> "backoff", ms |-> BackoffWait(attempt)])
    /\ attempt' = attempt + 1
    /\ ipc' = IF Exhausted(attempt) THEN "error" ELSE "batch"
    /\ raised' = IF Exhausted(attempt) THEN CallError(bi, attempt) ELSE raised
    /\ UNCHANGED <<batch_size, use_local, disk, flushed, cache, texts, results,
                   miss_indices, miss_texts, all_embeddings, bi, rerun, chunkVars, serveVars, sideVars>>

\* _embed_batch_local, lines 52-61: the local model encodes the batch
LocalCallOk ==
    /\ ipc = "batch"
    /\ use_local
    /\ LET batch == BatchAt(miss_texts, bi)
       IN  /\ calls' = Append(calls, [batch |-> bi, attempt |-> 0,
                                      texts |-> batch, ok |-> TRUE,
                                      result |-> LocalVectors(batch)])
           /\ BatchDone(LocalVectors(batch))
    /\ UNCHANGED <<batch_size, use_local, disk, flushed, cache, texts, results,
                   miss_indices, miss_texts, last_err, sleeps, raised, rerun,
                   chunkVars, serveVars, sideVars>>

\* _embed_batch_local raises: nothing catches it
LocalCallFail ==
    /\ ipc = "batch"
    /\ use_local
    /\ calls' = Append(calls, [batch |-> bi, attempt |-> 0,
                               texts |-> BatchAt(miss_texts, bi), ok |-> FALSE,
                               result |-> CallError(bi, 0)])
    /\ ipc' = "error"
    /\ raised' = CallError(bi, 0)
    /\ UNCHANGED <<batch_size, use_local, disk, flushed, cache, texts, results,
                   miss_indices, miss_texts, all_embeddings, bi, attempt, last_err,
                   sleeps, rerun, chunkVars, serveVars, sideVars>>

\* embed_with_cache, lines 62-68: store the new embeddings and return results
EmbedStore ==
    /\ ipc = "store"
    /\ LET st == StoreFrom(cache, results, miss_indices, miss_texts,
                           all_embeddings, 1)
       IN  /\ cache' = st.cache
           /\ results' = st.results
    /\ ipc' = "save"
    /\ UNCHANGED <<batch_size, use_local, disk, flushed, texts, miss_indices,
                   miss_texts, all_embeddings, bi, attempt, last_err, calls, sleeps,
                   raised, rerun, chunkVars, serveVars, sideVars>>

\* _save_cache, lines 30-31: open(CACHE_PATH, "wb") empties the file
SaveOpen ==
    /\ ipc = "save"
    /\ disk' = [state |-> "partial", data |-> EmptyMap]
    /\ ipc' = "dump"
    /\ UNCHANGED <<batch_size, use_local, flushed, cache, texts, results,
                   miss_indices, miss_texts, all_embeddings, bi, attempt, last_err,
                   calls, sleeps, raised, rerun, chunkVars, serveVars, sideVars>>

\* _save_cache, lines 32-33: pickle.dump writes the map and the file is closed
SaveDump ==
    /\ ipc = "dump"
    /\ disk' = [state |-> "complete", data |-> cache]
    /\ flushed' = cache
    /\ ipc' = "index"
    /\ UNCHANGED <<batch_size, use_local, cache, texts, results, miss_indices,
                   miss_texts, all_embeddings, bi, attempt, last_err, calls, sleeps,
                   raised, rerun, chunkVars, serveVars, sideVars>>

\* run_full_ingestion, lines 163-186: bulk indexing and the final count
IndexAndFinish ==
    /\ ipc = "index"
    /\ ipc' = "done"
    /\ UNCHANGED <<batch_size, use_local, disk, flushed, cache, texts, results,
                   miss_indices, miss_texts, all_embeddings, bi, attempt, last_err,
                   calls, sleeps, raised, rerun, chunkVars, serveVars, sideVars>>

\* the process is killed; the file stays as it is
Crash ==
    /\ ipc \in Running
    /\ raised' = <<"killed", ipc>>
    /\ ipc' = "dead"
    /\ UNCHANGED <<batch_size, use_local, disk, flushed, cache, texts, results,
                   miss_indices, miss_texts, all_embeddings, bi, attempt, last_err,
                   calls, sleeps, rerun, chunkVars, serveVars, sideVars>>

\* the process ends, after the run completed, raised or was killed: its memory
\* is gone, the file stays; texts keeps the corpus of a completed run
ProcessExit ==
    /\ ipc \in {"done", "error", "dead"}
    /\ ipc' = IF ipc = "done" THEN "finished" ELSE "aborted"
    /\ texts' = IF ipc = "done" THEN texts ELSE <<>>
    /\ cache' = EmptyMap
    /\ results' = <<>>
    /\ miss_indices' = <<>>
    /\ miss_texts' = <<>>
    /\ all_embeddings' = <<>>
    /\ bi' = 0
    /\ attempt' = 0
    /\ last_err' = None
    /\ calls' = <<>>
    /\ sleeps' = <<>>
    /\ raised' = None
    /\ rerun' = FALSE
    /\ UNCHANGED <<batch_size, use_local, disk, flushed, chunkVars, serveVars, sideVars>>

IngestNext ==
    \/ StartRun
    \/ ProcessExit
    \/ EmbedScan
    \/ OpenAICallOk
    \/ OpenAICallFail
    \/ LocalCallOk
    \/ LocalCallFail
    \/ EmbedStore
    \/ SaveOpen
    \/ SaveDump
    \/ IndexAndFinish
    \/ Crash

IngestSpec == IngestInit /\ [][IngestNext]_vars

\* ---------------------------------------------------------------- chunker inputs
\* the content of a section of n sentence units, as the parser hands it over
ContentOf(n) == JoinSp([i \in 1..n |-> <<Sent(i)>>])

Documents ==
    { [content |-> ContentOf(n), sent_tokens |-> st, header_tokens |-> h] :
        n \in 0..MaxSentences,
        st \in [1..MaxSentences -> 1..MaxSentenceTokens],
        h \in 1..MaxHeaderTokens }

ChunkInit ==
    /\ doc \in { d \in Documents :
                   \A i \in 1..MaxSentences :
                       i > Len(split_into_sentences(d.content)) => d.sent_tokens[i] = 1 }
    /\ max_tokens \in MinBudget..MaxBudget
    /\ overlap_tokens \in 0..MaxOverlap
    /\ chunks = <<>>
    /\ cpc = "ready"
    /\ batch_size = 1
    /\ use_local = FALSE
    /\ IngestIdle
    /\ ServeIdle
    /\ SideIdle

\* LegalChunker.chunk_document(doc)
ChunkDocument ==
    /\ cpc = "ready"
    /\ chunks' = chunk_document(doc)
    /\ cpc' = "done"
    /\ UNCHANGED <<doc, max_tokens, overlap_tokens, ingestVars, serveVars, sideVars>>

ChunkNext == ChunkDocument

ChunkSpec == ChunkInit /\ [][ChunkNext]_vars

\* ---------------------------------------------------------------- chunker claims
\* the sentence units of a text, in order (header and blanks left out)
Units(text) == SelectSeq(text, LAMBDA a : a.k = "s")

\* a chunk's content with the leading header removed
Body(c) ==
    IF c.content # <<>> /\ Head(c.content) = HDR THEN Tail(c.content) ELSE c.content

\* is the last k units of p the first k units of q
SharesK(p, q, k) ==
    /\ k <= Len(p)
    /\ k <= Len(q)
    /\ SubSeq(p, Len(p) - k + 1, Len(p)) = SubSeq(q, 1, k)

\* number of units chunk i+1 repeats from the end of chunk i
OverlapLen(i) ==
    LET p == Units(Body(chunks[i]))
        q == Units(Body(chunks[i + 1]))
        ks == { k \in 0..Len(q) : SharesK(p, q, k) }
    IN  CHOOSE k \in ks : \A m \in ks : m <= k

\* the units chunk i adds: its body without the overlap prefix
NewUnits(i) ==
    LET q == Units(Body(chunks[i]))
    IN  IF i = 1 THEN q ELSE SubSeq(q, OverlapLen(i - 1) + 1, Len(q))

HeaderTokens == count_tokens(doc, build_section_header(doc))
ContentTokens == count_tokens(doc, doc.content)

\* C1: a non-empty section with headerTokens + contentTokens <= maxTokens gives
\* exactly one chunk (chunkIndex 0, totalChunks 1) whose content is the header
\* followed by the full original content.
C1_SingleChunkHeaderPlusContent ==
    (cpc = "done" /\ doc.content # <<>> /\ HeaderTokens + ContentTokens <= max_tokens)
        => chunks = << [content |-> build_section_header(doc) \o doc.content,
                        chunk_index |-> 0, total_chunks |-> 1] >>

\* C2: for a section split into several chunks, the chunk bodies in chunkIndex
\* order, header stripped and the overlap prefix of every chunk after the first
\* removed, give exactly the section's sentence units in their original order.
C2_BodiesReconstructSentences ==
    (cpc = "done" /\ Len(chunks) > 1)
        => Flatten([i \in 1..Len(chunks) |-> NewUnits(i)])
               = Flatten(split_into_sentences(doc.content))

C2_Witness ==
    /\ cpc = "done"
    /\ Len(chunks) > 2
    /\ \E i \in 1..(Len(chunks) - 1) : OverlapLen(i) >= 1

C4_IndexContiguousTotalBackfilled ==
    cpc = "done"
        => \A i \in 1..Len(chunks) :
              /\ chunks[i].chunk_index = i - 1
              /\ chunks[i].total_chunks = Len(chunks)
              /\ 0 <= chunks[i].chunk_index
              /\ chunks[i].chunk_index < chunks[i].total_chunks

C4_Witness ==
    /\ cpc = "done"
    /\ Len(chunks) = 3

\* C5: a section whose content is empty gives zero chunks.
C5_EmptySectionNoChunks ==
    (cpc = "done" /\ doc.content = <<>>) => chunks = <<>>

\* ---------------------------------------------------------------- cache claims
Last(q) == q[Len(q)]

\* the vector the configured model gives for one text
ModelVector(t) ==
    IF use_local THEN LocalVectors(<<t>>)[1] ELSE OpenAIVectors(<<t>>)[1]

\* C6: a run over the texts of a run that just completed, with the cache that
\* run left, makes no call to the embedding model; and in any run no text whose
\* hash is in the cache is sent to the model.
C6_NoCallForCachedText ==
    /\ rerun => calls = <<>>
    /\ ipc \in {"batch", "store", "error"}
          => \A n \in 1..Len(calls) :
                \A k \in 1..Len(calls[n].texts) :
                    text_hash(calls[n].texts[k]) \notin DOMAIN cache

C6_Witness ==
    /\ rerun
    /\ ipc = "done"
    /\ Len(texts) >= 2
    /\ \E i \in 1..Len(texts) : texts[i] # texts[1]

\* every cache entry present before the step is present, unchanged, after it
CacheStable ==
    \A h \in DOMAIN cache : h \in DOMAIN cache' /\ cache'[h] = cache[h]

CacheRoundTrip ==
    \* an entry is there only for a text that was embedded, with that text's vector
    /\ \A h \in DOMAIN cache :
          \E t \in Texts : h = text_hash(t) /\ cache[h] = ModelVector(t)
    \* after the scan: a hit carries the stored vector, an unseen text is a miss
    /\ ipc \in {"batch", "store"}
          => /\ Len(results) = Len(texts)
             /\ \A i \in 1..Len(texts) :
                   IF text_hash(texts[i]) \in DOMAIN cache
                   THEN results[i] = cache[text_hash(texts[i])]
                   ELSE results[i] = None
    \* on return: every result is the cached vector, and a miss holds the vector
    \* the model returned for that text
    /\ ipc \in {"save", "dump", "index", "done"}
          => /\ Len(results) = Len(texts)
             /\ \A i \in 1..Len(texts) :
                   /\ text_hash(texts[i]) \in DOMAIN cache
                   /\ results[i] = cache[text_hash(texts[i])]
             /\ \A m \in 1..Len(miss_indices) :
                   \E n \in 1..Len(calls) :
                      \E k \in 1..Len(calls[n].texts) :
                         /\ calls[n].ok
                         /\ calls[n].texts[k] = texts[miss_indices[m]]
                         /\ calls[n].result[k] = cache[text_hash(texts[miss_indices[m]])]

\* C7: once a vector is stored for a text every later lookup returns it until
\* the cache is replaced (the process ends, a new run loads the file); a text
\* never stored is a miss; a hit returns the stored vector and a miss stores the
\* vector the model returned for that text.
C7_CacheRoundTrip ==
    [][((~StartRun /\ ~ProcessExit) => CacheStable) /\ CacheRoundTrip']_vars

C7_Witness ==
    /\ ipc = "save"
    /\ Len(miss_indices) >= 2
    /\ Len(miss_indices) < Len(texts)
    /\ miss_texts[1] # miss_texts[2]

\* C8: after a crash during _save_cache the file still holds a complete,
\* loadable map with every entry committed by earlier flushes.
C8_FlushCrashSafe ==
    (ipc = "dead" /\ raised \in {<<"killed", "save">>, <<"killed", "dump">>})
        => /\ disk.state # "partial"
           /\ \A h \in DOMAIN flushed :
                 h \in DOMAIN disk.data /\ disk.data[h] = flushed[h]

\* C9: when one embedding batch exhausts its retries, the vectors already
\* obtained for the other batches of the run are in the cache and persisted.
C9_OtherBatchesKept ==
    (ipc = "error" /\ ~use_local /\ calls # <<>> /\ ~Last(calls).ok)
        => \A n \in 1..Len(calls) :
              calls[n].ok
                 => \A k \in 1..Len(calls[n].texts) :
                       LET h == text_hash(calls[n].texts[k])
                       IN  /\ h \in DOMAIN cache
                           /\ cache[h] = calls[n].result[k]
                           /\ disk.state = "complete"
                           /\ h \in DOMAIN disk.data
                           /\ disk.data[h] = calls[n].result[k]

\* C10: a failed remote call for a sub-batch is followed by a call for the same
\* sub-batch, at most 3 calls per sub-batch, each wait twice the one before;
\* the first success ends the retries and its vectors are what embed_texts
\* keeps; the last error is raised exactly when the third call fails, and no
\* call follows it.
C10_BoundedRetry ==
    ~use_local =>
       /\ \A n \in 1..Len(calls) :
             /\ calls[n].attempt < 3
             /\ calls[n].texts = BatchAt(miss_texts, calls[n].batch)
             /\ n = 1 => (calls[n].attempt = 0 /\ calls[n].batch = 0)
             /\ n > 1 =>
                   IF calls[n - 1].ok
                   THEN /\ calls[n].attempt = 0
                        /\ calls[n].batch = calls[n - 1].batch + batch_size
                   ELSE /\ calls[n].attempt = calls[n - 1].attempt + 1
                        /\ calls[n].batch = calls[n - 1].batch
       /\ LET waits == SelectSeq(sleeps, LAMBDA z : z.why = "backoff")
              fails == SelectSeq(calls, LAMBDA c : ~c.ok)
          IN  /\ Len(waits) = Len(fails)
              /\ \A m \in 1..Len(fails) :
                    IF fails[m].attempt = 0
                    THEN waits[m].ms = 4000
                    ELSE waits[m].ms = 2 * waits[m - 1].ms
       /\ ipc \in {"batch", "store"}
             => all_embeddings
                  = Flatten([n \in 1..Len(SelectSeq(calls, LAMBDA c : c.ok)) |->
                               SelectSeq(calls, LAMBDA c : c.ok)[n].result])
       /\ (calls # <<>> /\ ~Last(calls).ok)
             => IF Last(calls).attempt = 2
                THEN ipc = "error" /\ raised = Last(calls).result
                ELSE ipc \in {"batch", "dead"}
       /\ (ipc = "error" /\ raised # <<"UnpicklingError">>)
             => (calls # <<>> /\ ~Last(calls).ok /\ Last(calls).attempt = 2)

C10_Witness ==
    /\ ~use_local
    /\ ipc = "error"
    /\ Len(calls) = 5
    /\ ~calls[1].ok
    /\ calls[2].ok

\* C11: whatever the cache holds and whatever the batch size, a successful
\* embed_with_cache returns one vector per input text, element i being the
\* vector of text i.
C11_OneVectorPerTextInOrder ==
    ipc \in {"save", "dump", "index", "done"}
        => /\ Len(results) = Len(texts)
           /\ \A i \in 1..Len(texts) : results[i] = ModelVector(texts[i])

C11_Witness ==
    /\ ipc = "save"
    /\ Len(calls) >= 2
    /\ Len(miss_indices) >= 2
    /\ Len(miss_indices) < Len(texts)
    /\ \E i \in 1..Len(texts) : texts[i] # texts[1]

\* ---------------------------------------------------------------- search index
\* Python's None for optional strings and dicts
NONE == "None"

\* `if x:` on an optional string
Truthy(x) == x # NONE /\ x # ""

\* LegalEmbedder.__init__ defaults (embedder.py:15-21)
DefaultEmbedder ==
    [model |-> "text-embedding-3-small", use_local |-> FALSE,
     local_model |-> "intfloat/multilingual-e5-large"]

\* run_full_ingestion, lines 112-115: the embedder that produces the indexed vectors
IngestionEmbedder ==
    [DefaultEmbedder EXCEPT !.use_local = TRUE,
                            !.local_model = "intfloat/multilingual-e5-large"]

\* api/main.py, line 31: embedder = LegalEmbedder()
ApiEmbedder == DefaultEmbedder

\* the model an embedder sends its input to
ModelOf(e) == IF e.use_local THEN e.local_model ELSE e.model

\* _embed_batch_local / _embed_batch_openai on one chunk text
embed_passage(e, text) ==
    [model |-> ModelOf(e),
     input |-> IF e.use_local THEN "passage: " \o text ELSE text]

\* embed_query, embedder.py:83-96
embed_query(e, query) ==
    [model |-> ModelOf(e),
     input |-> IF e.use_local THEN "query: " \o query ELSE query]

\* one document of the index: chunk.to_dict() plus content_embedding and
\* indexed_at (run_ingestion.py:169-178)
IndexedDoc(id, act, year, section, title, tags, idx, total, content) ==
    [chunk_id |-> id, content |-> content, chunk_index |-> idx,
     total_chunks |-> total, act_name |-> act, act_year |-> year,
     chapter |-> NONE, section_number |-> section, section_title |-> title,
     doc_type |-> "statute", tags |-> tags, source_file |-> act,
     content_embedding |-> embed_passage(IngestionEmbedder, content),
     indexed_at |-> "2026-01-01T00:00:00+00:00"]

ITAct == "Information Technology Act, 2020"
CompaniesAct == "Companies Act, 2013"
Constitution == "The Constitution of India, 1950"
LabourLaws == "Labour Laws, 2025"

DocA == IndexedDoc("A", ITAct, 2020, "66", "Computer related offences",
                   <<"cybercrime", "criminal">>, 0, 2, "hacking three years")
DocB == IndexedDoc("B", ITAct, 2020, "66", "Computer related offences",
                   <<"cybercrime", "criminal">>, 1, 2, "imprisonment or fine")
DocC == IndexedDoc("C", CompaniesAct, 2013, "66", "Reduction of share capital",
                   <<"corporate">>, 0, 1, "company may reduce")
DocD == IndexedDoc("D", Constitution, 1950, NONE, NONE,
                   <<"constitutional">>, 0, 1, "we the people")

\* the documents run_full_ingestion put into the index
IndexDocs == {DocA, DocB, DocC, DocD}

DocById(id) == CHOOSE d \in IndexDocs : d.chunk_id = id

\* ---------------------------------------------------------------- Elasticsearch requests
\* _build_filters, searcher.py:133-155
build_filters(act_filter, doc_type_filter, tag_filter, year_range) ==
    (IF Truthy(act_filter)
     THEN <<[kind |-> "term", field |-> "act_name", value |-> act_filter]>>
     ELSE <<>>)
    \o (IF Truthy(doc_type_filter)
        THEN <<[kind |-> "term", field |-> "doc_type", value |-> doc_type_filter]>>
        ELSE <<>>)
    \o (IF tag_filter # NONE /\ tag_filter # <<>>
        THEN <<[kind |-> "terms", field |-> "tags", values |-> tag_filter]>>
        ELSE <<>>)
    \o (IF year_range # NONE
        THEN <<[kind |-> "range", field |-> "act_year",
                gte |-> year_range[1], lte |-> year_range[2]]>>
        ELSE <<>>)

SeqRange(q) == { q[i] : i \in 1..Len(q) }

\* does a document satisfy one filter clause: term and terms on keyword
\* fields are exact matches, range is inclusive
ClauseMatches(d, c) ==
    IF c.kind = "term" THEN d[c.field] = c.value
    ELSE IF c.kind = "terms" THEN SeqRange(d[c.field]) \cap SeqRange(c.values) # {}
    ELSE d[c.field] >= c.gte /\ d[c.field] <= c.lte

\* the documents a list of clauses lets through (all clauses must hold)
Matching(docs, clauses) ==
    { d \in docs : \A i \in 1..Len(clauses) : ClauseMatches(d, clauses[i]) }

\* faulty variant: the response holds twice the asked number of hits
HybridSizeDouble(k) == 2 * k

\* searcher.py:43: "size": k
HybridSize(k) == k

\* searcher.py:41-88: the request body of hybrid_search
HybridBody(query, k, query_vector, filters) ==
    [size |-> HybridSize(k),
     query |-> [multi_match |-> query, filter |-> filters],
     knn |-> [field |-> "content_embedding", query_vector |-> query_vector,
              k |-> k * 2, num_candidates |-> k * 10, filter |-> filters],
     rrf |-> [window_size |-> k * 3, rank_constant |-> 60],
     source_excludes |-> {"content_embedding", "content_sparse"},
     highlight |-> TRUE]

\* searcher.py:100-109: the request body of semantic_only_search
SemanticBody(k, query_vector) ==
    [size |-> k,
     knn |-> [field |-> "content_embedding", query_vector |-> query_vector,
              k |-> k, num_candidates |-> k * 10],
     source_excludes |-> {"content_embedding"}]

\* faulty variant: the section clause is left out of the lookup
LookupClausesActOnly(act_name, section_number) ==
    <<[kind |-> "term", field |-> "act_name", value |-> act_name]>>

\* searcher.py:118-125: the two term clauses of section_lookup
LookupClauses(act_name, section_number) ==
    <<[kind |-> "term", field |-> "act_name", value |-> act_name],
      [kind |-> "term", field |-> "section_number", value |-> section_number]>>

\* searcher.py:117-127: the request body of section_lookup
LookupBody(act_name, section_number) ==
    [size |-> 5, must |-> LookupClauses(act_name, section_number),
     source_excludes |-> {}]

\* ---------------------------------------------------------------- Elasticsearch responses
\* rankings without repetition over a set of documents' ids
Rankings(ids) ==
    UNION { { r \in [1..n -> ids] : \A i, j \in 1..n : i # j => r[i] # r[j] } :
              n \in 0..Cardinality(ids) }

FullRankings(ids) == { r \in Rankings(ids) : Len(r) = Cardinality(ids) }

Prefix(q, n) == SubSeq(q, 1, IF n < Len(q) THEN n ELSE Len(q))

Pos(q, x) == CHOOSE i \in 1..Len(q) : q[i] = x

\* one ranking's share of a document's RRF score, as a fraction
RankShare(ranking, id, rank_constant) ==
    IF id \in SeqRange(ranking)
    THEN [n |-> 1, d |-> rank_constant + Pos(ranking, id)]
    ELSE [n |-> 0, d |-> 1]

AddFrac(x, y) == [n |-> x.n * y.d + y.n * x.d, d |-> x.d * y.d]
LessFrac(x, y) == x.n * y.d < y.n * x.d
SameFrac(x, y) == x.n * y.d = y.n * x.d

\* the rrf retriever: the sum of 1/(rank_constant + rank) over the two rankings
FusedScore(lex, vec, id, rank_constant) ==
    AddFrac(RankShare(lex, id, rank_constant), RankShare(vec, id, rank_constant))

\* _source of a hit: the document without the excluded fields
SourceOf(d, excludes) == [f \in (DOMAIN d) \ excludes |-> d[f]]

\* one hit of a response
Hit(d, score, excludes, highlighted) ==
    IF highlighted
    THEN [score |-> score, source |-> SourceOf(d, excludes),
          highlight |-> <<"<em>" \o d.content \o "</em>">>]
    ELSE [score |-> score, source |-> SourceOf(d, excludes)]

\* the hits of a hybrid request, the fused candidates taken in the order
\* `order`: Elasticsearch sorts by fused score and the repository asks for no
\* other sort key, so `order` is any order that does not put a lower score first
HybridHits(body, lex, vec, order) ==
    LET lexw == Prefix(lex, body.rrf.window_size)
        vecw == Prefix(Prefix(vec, body.knn.k), body.rrf.window_size)
        top == Prefix(order, body.size)
    IN  [i \in 1..Len(top) |->
            Hit(DocById(top[i]),
                FusedScore(lexw, vecw, top[i], body.rrf.rank_constant),
                body.source_excludes, top[i] \in SeqRange(lexw))]

\* the orders Elasticsearch may return the fused candidates in
FusedOrders(body, lex, vec) ==
    LET lexw == Prefix(lex, body.rrf.window_size)
        vecw == Prefix(Prefix(vec, body.knn.k), body.rrf.window_size)
        cands == SeqRange(lexw) \cup SeqRange(vecw)
        sc == [id \in cands |-> FusedScore(lexw, vecw, id, body.rrf.rank_constant)]
    IN  { o \in FullRankings(cands) :
            \A i \in 1..(Len(o) - 1) : ~LessFrac(sc[o[i]], sc[o[i + 1]]) }

\* the hits of a kNN-only request: the nearest documents, nearest first
SemanticHits(body, vec) ==
    LET top == Prefix(Prefix(vec, body.knn.k), body.size)
    IN  [i \in 1..Len(top) |->
            Hit(DocById(top[i]), [n |-> 1, d |-> i], body.source_excludes, FALSE)]

\* the hits of the lookup request: the matching documents, all with one score
LookupHits(body, order) ==
    LET top == Prefix(order, body.size)
    IN  [i \in 1..Len(top) |->
            Hit(DocById(top[i]), [n |-> 1, d |-> 1], body.source_excludes, FALSE)]

\* source.get(field): None when the field is absent
Get(src, f) == IF f \in DOMAIN src THEN src[f] ELSE NONE

\* _format_results, searcher.py:159-175: one result
format_hit(hit) ==
    [score |-> hit.score,
     chunk_id |-> Get(hit.source, "chunk_id"),
     content |-> Get(hit.source, "content"),
     act_name |-> Get(hit.source, "act_name"),
     act_year |-> Get(hit.source, "act_year"),
     section_number |-> Get(hit.source, "section_number"),
     section_title |-> Get(hit.source, "section_title"),
     chapter |-> Get(hit.source, "chapter"),
     doc_type |-> Get(hit.source, "doc_type"),
     tags |-> IF "tags" \in DOMAIN hit.source THEN hit.source.tags ELSE <<>>,
     highlights |-> IF "highlight" \in DOMAIN hit THEN hit.highlight ELSE <<>>]

\* _format_results, searcher.py:157-177
format_results(hits) == [i \in 1..Len(hits) |-> format_hit(hits[i])]

\* Python's None where a dict may be returned
NoDoc == [none |-> TRUE]

\* section_lookup, searcher.py:130-131
lookup_result(hits) == IF hits # <<>> THEN hits[1].source ELSE NoDoc

\* ---------------------------------------------------------------- retrieval
\* inputs tried for the search methods
SearchQueries == {"hacking punishment", "share capital"}
ActFilters == {NONE, ITAct, LabourLaws}
DocTypeFilters == {NONE, "judgment"}
TagFilters == {NONE, <<"cybercrime">>}
YearRanges == {NONE, <<2015, 2025>>}
LookupActs == {ITAct, CompaniesAct, LabourLaws}
SectionNumbers == {"66", "43"}

IdsOf(docs) == { d.chunk_id : d \in docs }

\* api/main.py, lines 31-32: the service builds its embedder and its searcher
SearchInit ==
    /\ s_embedder = ApiEmbedder
    /\ s_call = <<>>
    /\ s_body = <<>>
    /\ s_lex = <<>>
    /\ s_vec = <<>>
    /\ s_hits = <<>>
    /\ s_ret = <<>>
    /\ spc = "ready"
    /\ a_k = 1
    /\ AnswerIdle
    /\ apc = "idle"
    /\ batch_size = 1
    /\ use_local = FALSE
    /\ IngestIdle
    /\ ChunkIdle
    /\ SideIdle

\* LegalSearcher.hybrid_search, searcher.py:21-92.  Elasticsearch ranks the
\* documents the filters let through: any of them may match the text, and the
\* approximate kNN search may find any of them.
HybridSearch ==
    /\ spc = "ready"
    /\ \E query \in SearchQueries, k \in 1..MaxK, act_filter \in ActFilters,
          doc_type_filter \in DocTypeFilters, tag_filter \in TagFilters,
          year_range \in YearRanges :
          LET query_vector == embed_query(s_embedder, query)
              filters == build_filters(act_filter, doc_type_filter, tag_filter,
                                       year_range)
              body == HybridBody(query, k, query_vector, filters)
              ids == IdsOf(Matching(IndexDocs, filters))
          IN  \E lex \in Rankings(ids), vec \in Rankings(ids) :
                \E order \in FusedOrders(body, lex, vec) :
                  /\ s_call' = [op |-> "hybrid_search", query |-> query, k |-> k,
                                act_filter |-> act_filter,
                                doc_type_filter |-> doc_type_filter,
                                tag_filter |-> tag_filter,
                                year_range |-> year_range]
                  /\ s_body' = body
                  /\ s_lex' = lex
                  /\ s_vec' = vec
                  /\ s_hits' = HybridHits(body, lex, vec, order)
                  /\ s_ret' = format_results(HybridHits(body, lex, vec, order))
    /\ spc' = "returned"
    /\ UNCHANGED <<s_embedder, chunkVars, ingestVars, answerVars, sideVars>>

\* LegalSearcher.semantic_only_search, searcher.py:94-111
SemanticOnlySearch ==
    /\ spc = "ready"
    /\ \E query \in SearchQueries, k \in 1..MaxK :
          LET body == SemanticBody(k, embed_query(s_embedder, query))
          IN  \E vec \in FullRankings(IdsOf(IndexDocs)) :
                /\ s_call' = [op |-> "semantic_only_search", query |-> query,
                              k |-> k]
                /\ s_body' = body
                /\ s_vec' = vec
                /\ s_hits' = SemanticHits(body, vec)
                /\ s_ret' = format_results(SemanticHits(body, vec))
    /\ s_lex' = <<>>
    /\ spc' = "returned"
    /\ UNCHANGED <<s_embedder, chunkVars, ingestVars, answerVars, sideVars>>

\* LegalSearcher.section_lookup, searcher.py:113-131.  The request names no
\* sort, so the matching documents come back in an order Elasticsearch picks.
SectionLookup ==
    /\ spc = "ready"
    /\ \E act_name \in LookupActs, section_number \in SectionNumbers :
          LET body == LookupBody(act_name, section_number)
          IN  \E order \in FullRankings(IdsOf(Matching(IndexDocs, body.must))) :
                /\ s_call' = [op |-> "section_lookup", act_name |-> act_name,
                              section_number |-> section_number]
                /\ s_body' = body
                /\ s_hits' = LookupHits(body, order)
                /\ s_ret' = lookup_result(LookupHits(body, order))
    /\ s_lex' = <<>>
    /\ s_vec' = <<>>
    /\ spc' = "returned"
    /\ UNCHANGED <<s_embedder, chunkVars, ingestVars, answerVars, sideVars>>

\* the caller has the return value; the searcher is ready for the next call
SearchReturn ==
    /\ spc = "returned"
    /\ s_call' = <<>>
    /\ s_body' = <<>>
    /\ s_lex' = <<>>
    /\ s_vec' = <<>>
    /\ s_hits' = <<>>
    /\ s_ret' = <<>>
    /\ spc' = "ready"
    /\ UNCHANGED <<s_embedder, chunkVars, ingestVars, answerVars, sideVars>>

SearchNext == HybridSearch \/ SemanticOnlySearch \/ SectionLookup \/ SearchReturn

SearchSpec == SearchInit /\ [][SearchNext]_vars

\* ---------------------------------------------------------------- retrieval claims
\* C12: in the deployment the code sets up, every query vector sent to the
\* index comes from the embedding model that produced the indexed vectors.
C12_QueryModelIsIndexModel ==
    (spc = "returned" /\ s_call.op \in {"hybrid_search", "semantic_only_search"})
        => \A d \in IndexDocs :
              s_body.knn.query_vector.model = d.content_embedding.model

\* a hybrid_search call has returned
HybridReturned == spc = "returned" /\ s_call.op = "hybrid_search"

\* the two lists the fusion of the last request worked on
LexList == Prefix(s_lex, s_body.rrf.window_size)
VecList == Prefix(Prefix(s_vec, s_body.knn.k), s_body.rrf.window_size)

\* fusedScore of the spec: the sum of 1/(60 + rank) over the lists holding id
SpecScore(id) == FusedScore(LexList, VecList, id, 60)

ResultIds == [i \in 1..Len(s_ret) |-> s_ret[i].chunk_id]

\* at most k results, each chunk once, each with its fused score, best first,
\* and no chunk left out that scores higher than a returned one
FusedTopK ==
    /\ Len(s_ret) <= s_call.k
    /\ \A i, j \in 1..Len(s_ret) : i # j => ResultIds[i] # ResultIds[j]
    /\ SeqRange(ResultIds) \subseteq SeqRange(LexList) \cup SeqRange(VecList)
    /\ \A i \in 1..Len(s_ret) : SameFrac(s_ret[i].score, SpecScore(ResultIds[i]))
    /\ \A i, j \in 1..Len(s_ret) :
          i < j => ~LessFrac(s_ret[i].score, s_ret[j].score)
    /\ \A id \in (SeqRange(LexList) \cup SeqRange(VecList)) \ SeqRange(ResultIds) :
          /\ Len(s_ret) = s_call.k
          /\ \A i \in 1..Len(s_ret) : ~LessFrac(s_ret[i].score, SpecScore(id))

\* the spec's example: lexical ranking [A,B,C], vector ranking [B,A,D]
ExampleRankings == s_lex = <<"A", "B", "C">> /\ s_vec = <<"B", "A", "D">>

\* in the example D is never returned without A and B before it
ExampleOrder ==
    ExampleRankings =>
        \A i \in 1..Len(s_ret) :
            ResultIds[i] = "D" => {"A", "B"} \subseteq SeqRange(Prefix(ResultIds, i))

\* position of a chunk in the lexical list, past its end when absent: a
\* higher lexical score is an earlier position
LexKey(id) == IF id \in SeqRange(LexList) THEN Pos(LexList, id) ELSE Len(LexList) + 1

\* the order of chunk identifiers
ChunkIdLess(a, b) == Pos(<<"A", "B", "C", "D">>, a) < Pos(<<"A", "B", "C", "D">>, b)

\* equal fused scores come in the order of lexical score, then chunk identifier
TieBreak ==
    \A i, j \in 1..Len(s_ret) :
        (i < j /\ SameFrac(s_ret[i].score, s_ret[j].score))
            => \/ LexKey(ResultIds[i]) < LexKey(ResultIds[j])
               \/ /\ LexKey(ResultIds[i]) = LexKey(ResultIds[j])
                  /\ ChunkIdLess(ResultIds[i], ResultIds[j])

LookupReturned == spc = "returned" /\ s_call.op = "section_lookup"

\* the indexed chunks with exactly the act name and section number asked for
ExactMatches ==
    { d \in IndexDocs : /\ d.act_name = s_call.act_name
                        /\ d.section_number = s_call.section_number }

\* C14: section_lookup returns none when no indexed chunk has exactly the act
\* name and section number asked for, and otherwise one chunk, which has both.
C14_SectionLookupExact ==
    LookupReturned =>
        IF ExactMatches = {} THEN s_ret = NoDoc
        ELSE /\ s_ret # NoDoc
             /\ s_ret.act_name = s_call.act_name
             /\ s_ret.section_number = s_call.section_number
             /\ \E d \in ExactMatches : d.chunk_id = s_ret.chunk_id

\* a lookup that found one chunk of a section indexed as two chunks
C14_Witness ==
    /\ LookupReturned
    /\ Cardinality(ExactMatches) = 2
    /\ s_ret # NoDoc
    /\ s_ret.chunk_id = "B"

\* the fields a result may hold: score, chunk id, content, metadata, highlights
ResultFields ==
    {"score", "chunk_id", "content", "chunk_index", "total_chunks", "act_name",
     "act_year", "chapter", "section_number", "section_title", "doc_type",
     "tags", "source_file", "indexed_at", "highlights"}

\* C15: nothing a search method returns holds a chunk's embedding vector.
C15_NoVectorReturned ==
    spc = "returned" =>
        IF s_call.op = "section_lookup"
        THEN s_ret = NoDoc \/ DOMAIN s_ret \subseteq ResultFields
        ELSE \A i \in 1..Len(s_ret) : DOMAIN s_ret[i] \subseteq ResultFields

\* ---------------------------------------------------------------- VakilBot: pure parts
UpperLetters == "ABCDEFGHIJKLMNOPQRSTUVWXYZ"
LowerLetters == "abcdefghijklmnopqrstuvwxyz"

\* one character of str.lower()
LowerChar(c) ==
    IF \E i \in 1..Len(UpperLetters) : SubSeq(UpperLetters, i, i) = c
    THEN LET i == CHOOSE i \in 1..Len(UpperLetters) : SubSeq(UpperLetters, i, i) = c
         IN  SubSeq(LowerLetters, i, i)
    ELSE c

RECURSIVE LowerFrom(_, _)
LowerFrom(s, i) ==
    IF i > Len(s) THEN "" ELSE LowerChar(SubSeq(s, i, i)) \o LowerFrom(s, i + 1)

\* str.lower()
Lower(s) == LowerFrom(s, 1)

\* Python's `needle in hay` on strings
Contains(hay, needle) ==
    \E i \in 1..(Len(hay) - Len(needle) + 1) :
        SubSeq(hay, i, i + Len(needle) - 1) = needle

\* act_hints, vakilbot.py:77-87, in the dict's insertion order
act_hints ==
    << <<"bns", "Bharatiya Nyay Sanhita, 2023">>,
       <<"bnss", "Bharatiya Nagrik Suraksha Sanhita, 2023">>,
       <<"companiesvact", CompaniesAct>>,
       <<"constitution", Constitution>>,
       <<"consumer protection act", "Consumer Protection Act, 2019">>,
       <<"it act", ITAct>>,
       <<"pocso act", "Protection of Children from Sexual Offences Act, 2012">>,
       <<"labour laws", LabourLaws>>,
       <<"domestic violence", "Women Protection Act, 2005">> >>

\* tag_map, vakilbot.py:96-101, in the dict's insertion order
tag_map ==
    << <<"cybercrime", <<"cybercrime", "hacking", "data", "computer fraud">> >>,
       <<"criminal", <<"murder", "theft", "assault", "robbery", "fraud">> >>,
       <<"family", <<"divorce", "marriage", "custody", "alimony">> >>,
       <<"corporate", <<"company", "director", "shareholder", "incorporation">> >> >>

RECURSIVE DetectActLast(_, _)
\* faulty variant: the last hint of the table found in the query wins
DetectActLast(query_lower, i) ==
    IF i > Len(act_hints) THEN NONE
    ELSE IF DetectActLast(query_lower, i + 1) # NONE
         THEN DetectActLast(query_lower, i + 1)
    ELSE IF Contains(query_lower, act_hints[i][1]) THEN act_hints[i][2]
    ELSE NONE

\* vakilbot.py:89-93: the act of the first hint found in the query
RECURSIVE DetectActFrom(_, _)
DetectActFrom(query_lower, i) ==
    IF i > Len(act_hints) THEN NONE
    ELSE IF Contains(query_lower, act_hints[i][1]) THEN act_hints[i][2]
    ELSE DetectActFrom(query_lower, i + 1)

\* vakilbot.py:103-106: the tags with a keyword in the query, in table order
RECURSIVE DetectTagsFrom(_, _)
DetectTagsFrom(query_lower, i) ==
    IF i > Len(tag_map) THEN <<>>
    ELSE (IF \E j \in 1..Len(tag_map[i][2]) : Contains(query_lower, tag_map[i][2][j])
          THEN <<tag_map[i][1]>> ELSE <<>>)
         \o DetectTagsFrom(query_lower, i + 1)

\* _detect_intent, vakilbot.py:67-115 (the section number it also extracts
\* is not read by answer and is left out)
detect_intent(query) ==
    LET query_lower == Lower(query)
        detected_act == DetectActFrom(query_lower, 1)
        detected_tags == DetectTagsFrom(query_lower, 1)
    IN  [act_filter |-> detected_act,
         tag_filter |-> IF detected_tags # <<>> THEN detected_tags ELSE NONE,
         detected_act_name |-> detected_act]

\* vakilbot.py:158: act_filter or intent["act_filter"]
effective_act_filter(act_filter, intent) ==
    IF Truthy(act_filter) THEN act_filter ELSE intent.act_filter

\* vakilbot.py:124-131: the citation of one result in the context; the dash
\* before the title stands for the source's em dash, and the year of an
\* indexed document is always a number
ContextCitation(r) ==
    "[" \o r.act_name
    \o (IF r.act_year # 0 THEN ", " \o ToString(r.act_year) ELSE "")
    \o "]"
    \o (IF Truthy(r.section_number)
        THEN " Section " \o r.section_number
             \o (IF Truthy(r.section_title)
                 THEN " - " \o r.section_title ELSE "")
        ELSE "")

RECURSIVE ContextFrom(_, _)
ContextFrom(rs, i) ==
    IF i > Len(rs) THEN ""
    ELSE "--- Source " \o ToString(i) \o ": " \o ContextCitation(rs[i])
         \o " ---\n" \o rs[i].content \o "\n"
         \o (IF i < Len(rs) THEN "\n" ELSE "")
         \o ContextFrom(rs, i + 1)

\* _build_context, vakilbot.py:117-137
build_context(rs) ==
    IF rs = <<>> THEN "No relevant legal provisions found."
    ELSE ContextFrom(rs, 1)

\* vakilbot.py:174-179: the user prompt
user_prompt(query, rs) ==
    "User Question: " \o query \o "\n\nLegal Context:\n" \o build_context(rs)
    \o "\n\nPlease provide a comprehensive answer based strictly on the above legal context."

\* vakilbot.py:208, 229
SourcesHeader == "\n\n---\n**Sources Retrieved:**\n"

\* faulty variant: every result is cited
CitedAll(rs) == rs

\* results[:3], vakilbot.py:209, 230
Cited(rs) == Prefix(rs, 3)

\* vakilbot.py:210-213, 231-234: line i of the citation summary
CitationLine(rs, i) ==
    ToString(i) \o ". " \o Cited(rs)[i].act_name
    \o (IF Truthy(Cited(rs)[i].section_number)
        THEN ", Section " \o Cited(rs)[i].section_number ELSE "")
    \o "\n"

RECURSIVE SourcesFrom(_, _)
SourcesFrom(rs, i) ==
    IF i > Len(Cited(rs)) THEN ""
    ELSE CitationLine(rs, i) \o SourcesFrom(rs, i + 1)

\* faulty variant: the batch answer without the header of the summary
batch_answer_plain(answer, rs) == answer \o SourcesFrom(rs, 1)

\* _generate_response, vakilbot.py:226-234
batch_answer(answer, rs) == answer \o SourcesHeader \o SourcesFrom(rs, 1)

\* ---------------------------------------------------------------- VakilBot.answer
\* inputs tried for answer
AnswerQueries ==
    {"it act hacking", "labour laws wages", "divorce process", "What is bail",
     "BNSS arrest"}
CallerActFilters == {NONE, CompaniesAct}

\* the text the generation collaborator returns in batch mode
AnswerText == "Section 66 applies. "

\* the content of the i-th chunk of the generation stream, when it has one
Token(i) == "t" \o ToString(i) \o " "

\* faulty variant: every chunk's content is yielded
ForwardedAlways(out, content) == Append(out, content)

\* vakilbot.py:205-206: a chunk's content is yielded when it is not empty
Forwarded(out, content) == IF content # "" THEN Append(out, content) ELSE out

\* vakilbot.py:47-63: the request of _rewrite_query
RewriteRequest(query) ==
    [model |-> "gpt-4o-mini", input |-> "Original query: " \o query
                                        \o "\n\nRewritten query:",
     stream |-> FALSE]

\* vakilbot.py:196-202, 217-222: the request of the generation step
GenerateRequest(prompt, stream) ==
    [model |-> "gpt-4o", input |-> prompt, stream |-> stream]

\* vakilbot.py:161-166: the arguments of the first hybrid_search
first_search_args(query, k, eff, intent) ==
    [query |-> query, k |-> k, act_filter |-> eff, doc_type_filter |-> NONE,
     tag_filter |-> intent.tag_filter, year_range |-> NONE]

\* faulty variant: the fallback repeats the filters
fallback_search_args_filtered(query, k, eff, intent) ==
    first_search_args(query, k, eff, intent)

\* vakilbot.py:170: the arguments of the fallback hybrid_search
fallback_search_args(query, k, eff, intent) ==
    [query |-> query, k |-> k, act_filter |-> NONE, doc_type_filter |-> NONE,
     tag_filter |-> NONE, year_range |-> NONE]

\* vakilbot.py:169: if not results and effective_act_filter
NeedsFallback(rs, eff) == rs = <<>> /\ Truthy(eff)

\* what hybrid_search may return for the arguments.  The two rankings are
\* taken to agree here; how differing rankings fuse is SearchSpec's subject.
SearchOutcomes(args) ==
    LET filters == build_filters(args.act_filter, args.doc_type_filter,
                                 args.tag_filter, args.year_range)
        body == HybridBody(args.query, args.k,
                           embed_query(s_embedder, args.query), filters)
        ids == IdsOf(Matching(IndexDocs, filters))
    IN  UNION { { format_results(HybridHits(body, r, r, order)) :
                    order \in FusedOrders(body, r, r) } : r \in Rankings(ids) }

\* api/main.py, lines 31-33: the service builds its searcher and its bot
AnswerInit ==
    /\ s_embedder = ApiEmbedder
    /\ s_call = <<>>
    /\ s_body = <<>>
    /\ s_lex = <<>>
    /\ s_vec = <<>>
    /\ s_hits = <<>>
    /\ s_ret = <<>>
    /\ spc = "ready"
    /\ a_k \in {1, MaxK}
    /\ AnswerIdle
    /\ apc = "await"
    /\ batch_size = 1
    /\ use_local = FALSE
    /\ IngestIdle
    /\ ChunkIdle
    /\ SideIdle

\* answer, vakilbot.py:139-155: the call and its intent detection
Ask ==
    /\ apc = "await"
    /\ \E query \in AnswerQueries, act_filter \in CallerActFilters,
          stream \in BOOLEAN :
          /\ a_query' = query
          /\ a_act_filter' = act_filter
          /\ a_stream' = stream
          /\ a_intent' = detect_intent(query)
    /\ apc' = "rewrite"
    /\ UNCHANGED <<a_k, a_rewritten, a_searches, a_results, a_prompt, a_llm,
                   a_produced, a_out, a_ci, a_ret, a_raised,
                   searchVars, chunkVars, ingestVars, sideVars>>

\* _rewrite_query, vakilbot.py:45-65: the collaborator answers
RewriteOk ==
    /\ apc = "rewrite"
    /\ a_llm' = Append(a_llm, RewriteRequest(a_query))
    /\ a_rewritten' = "rewritten " \o a_query
    /\ apc' = "search"
    /\ UNCHANGED <<a_k, a_query, a_act_filter, a_stream, a_intent, a_searches,
                   a_results, a_prompt, a_produced, a_out, a_ci, a_ret, a_raised,
                   searchVars, chunkVars, ingestVars, sideVars>>

\* _rewrite_query, vakilbot.py:50-64: the collaborator's call raises; nothing
\* between it and the caller of answer catches the exception
RewriteFail ==
    /\ apc = "rewrite"
    /\ a_llm' = Append(a_llm, RewriteRequest(a_query))
    /\ a_raised' = <<"APIError">>
    /\ apc' = "raised"
    /\ UNCHANGED <<a_k, a_query, a_act_filter, a_stream, a_intent, a_rewritten,
                   a_searches, a_results, a_prompt, a_produced, a_out, a_ci,
                   a_ret, searchVars, chunkVars, ingestVars, sideVars>>

\* answer, vakilbot.py:158-166 and 172-184: the first hybrid_search; when no
\* fallback follows, the context and the prompt are built from its results
FirstSearch ==
    /\ apc = "search"
    /\ LET eff == effective_act_filter(a_act_filter, a_intent)
           args == first_search_args(a_rewritten, a_k, eff, a_intent)
       IN  /\ a_searches' = Append(a_searches, args)
           /\ \E rs \in SearchOutcomes(args) :
                 /\ a_results' = rs
                 /\ IF NeedsFallback(rs, eff)
                    THEN apc' = "fallback" /\ a_prompt' = a_prompt
                    ELSE apc' = "generate" /\ a_prompt' = user_prompt(a_query, rs)
    /\ UNCHANGED <<a_k, a_query, a_act_filter, a_stream, a_intent, a_rewritten,
                   a_llm, a_produced, a_out, a_ci, a_ret, a_raised,
                   searchVars, chunkVars, ingestVars, sideVars>>

\* answer, vakilbot.py:169-184: the fallback hybrid_search, then the context
\* and the prompt
FallbackSearch ==
    /\ apc = "fallback"
    /\ LET eff == effective_act_filter(a_act_filter, a_intent)
           args == fallback_search_args(a_rewritten, a_k, eff, a_intent)
       IN  /\ a_searches' = Append(a_searches, args)
           /\ \E rs \in SearchOutcomes(args) :
                 /\ a_results' = rs
                 /\ a_prompt' = user_prompt(a_query, rs)
    /\ apc' = "generate"
    /\ UNCHANGED <<a_k, a_query, a_act_filter, a_stream, a_intent, a_rewritten,
                   a_llm, a_produced, a_out, a_ci, a_ret, a_raised,
                   searchVars, chunkVars, ingestVars, sideVars>>

\* _generate_response, vakilbot.py:216-234: the collaborator answers
GenerateOk ==
    /\ apc = "generate" /\ ~a_stream
    /\ a_llm' = Append(a_llm, GenerateRequest(a_prompt, FALSE))
    /\ a_ret' = batch_answer(AnswerText, a_results)
    /\ apc' = "returned"
    /\ UNCHANGED <<a_k, a_query, a_act_filter, a_stream, a_intent, a_rewritten,
                   a_searches, a_results, a_prompt, a_produced, a_out, a_ci,
                   a_raised, searchVars, chunkVars, ingestVars, sideVars>>

\* _generate_response, vakilbot.py:217-222: the collaborator's call raises
GenerateFail ==
    /\ apc = "generate" /\ ~a_stream
    /\ a_llm' = Append(a_llm, GenerateRequest(a_prompt, FALSE))
    /\ a_raised' = <<"APIError">>
    /\ apc' = "raised"
    /\ UNCHANGED <<a_k, a_query, a_act_filter, a_stream, a_intent, a_rewritten,
                   a_searches, a_results, a_prompt, a_produced, a_out, a_ci,
                   a_ret, searchVars, chunkVars, ingestVars, sideVars>>

\* answer, vakilbot.py:187-188: _stream_response is a generator function, so
\* answer returns the generator before any of its body has run
ReturnGenerator ==
    /\ apc = "generate" /\ a_stream
    /\ a_ret' = "generator"
    /\ apc' = "gen_new"
    /\ UNCHANGED <<a_k, a_query, a_act_filter, a_stream, a_intent, a_rewritten,
                   a_searches, a_results, a_prompt, a_llm, a_produced, a_out,
                   a_ci, a_raised, searchVars, chunkVars, ingestVars, sideVars>>

\* _stream_response, vakilbot.py:196-202: the caller's first pull opens the
\* generation stream
StreamOpenOk ==
    /\ apc = "gen_new"
    /\ a_llm' = Append(a_llm, GenerateRequest(a_prompt, TRUE))
    /\ apc' = "streaming"
    /\ UNCHANGED <<a_k, a_query, a_act_filter, a_stream, a_intent, a_rewritten,
                   a_searches, a_results, a_prompt, a_produced, a_out, a_ci,
                   a_ret, a_raised, searchVars, chunkVars, ingestVars, sideVars>>

\* _stream_response, vakilbot.py:196-202: opening the stream raises
StreamOpenFail ==
    /\ apc = "gen_new"
    /\ a_llm' = Append(a_llm, GenerateRequest(a_prompt, TRUE))
    /\ a_raised' = <<"APIError">>
    /\ apc' = "raised"
    /\ UNCHANGED <<a_k, a_query, a_act_filter, a_stream, a_intent, a_rewritten,
                   a_searches, a_results, a_prompt, a_produced, a_out, a_ci,
                   a_ret, searchVars, chunkVars, ingestVars, sideVars>>

\* _stream_response, vakilbot.py:204-206: a chunk with content is yielded
StreamToken ==
    /\ apc = "streaming"
    /\ Len(a_produced) < MaxStreamChunks
    /\ a_produced' = Append(a_produced, Token(Len(a_produced) + 1))
    /\ a_out' = Forwarded(a_out, Token(Len(a_produced) + 1))
    /\ UNCHANGED <<a_k, a_query, a_act_filter, a_stream, a_intent, a_rewritten,
                   a_searches, a_results, a_prompt, a_llm, a_ci, a_ret, a_raised,
                   apc, searchVars, chunkVars, ingestVars, sideVars>>

\* _stream_response, vakilbot.py:204-205: a chunk without content is skipped
StreamEmptyChunk ==
    /\ apc = "streaming"
    /\ Len(a_produced) < MaxStreamChunks
    /\ a_produced' = Append(a_produced, "")
    /\ a_out' = Forwarded(a_out, "")
    /\ UNCHANGED <<a_k, a_query, a_act_filter, a_stream, a_intent, a_rewritten,
                   a_searches, a_results, a_prompt, a_llm, a_ci, a_ret,
                   a_raised, apc, searchVars, chunkVars, ingestVars, sideVars>>

\* _stream_response, vakilbot.py:204: reading the next chunk raises
StreamFail ==
    /\ apc = "streaming"
    /\ a_raised' = <<"APIError">>
    /\ apc' = "raised"
    /\ UNCHANGED <<a_k, a_query, a_act_filter, a_stream, a_intent, a_rewritten,
                   a_searches, a_results, a_prompt, a_llm, a_produced, a_out,
                   a_ci, a_ret, searchVars, chunkVars, ingestVars, sideVars>>

\* _stream_response, vakilbot.py:204-208: the stream is exhausted and the
\* header of the citation summary is yielded
StreamEnd ==
    /\ apc = "streaming"
    /\ a_out' = Append(a_out, SourcesHeader)
    /\ apc' = "citing"
    /\ UNCHANGED <<a_k, a_query, a_act_filter, a_stream, a_intent, a_rewritten,
                   a_searches, a_results, a_prompt, a_llm, a_produced, a_ci,
                   a_ret, a_raised, searchVars, chunkVars, ingestVars, sideVars>>

\* _stream_response, vakilbot.py:209-213: the next citation line is yielded
YieldCitation ==
    /\ apc = "citing"
    /\ a_ci < Len(Cited(a_results))
    /\ a_ci' = a_ci + 1
    /\ a_out' = Append(a_out, CitationLine(a_results, a_ci + 1))
    /\ UNCHANGED <<a_k, a_query, a_act_filter, a_stream, a_intent, a_rewritten,
                   a_searches, a_results, a_prompt, a_llm, a_produced, a_ret,
                   a_raised, apc, searchVars, chunkVars, ingestVars, sideVars>>

\* _stream_response, vakilbot.py:209-213: the loop over the cited results is
\* over and the generator is finished
StreamDone ==
    /\ apc = "citing"
    /\ a_ci = Len(Cited(a_results))
    /\ apc' = "done"
    /\ UNCHANGED <<a_k, a_query, a_act_filter, a_stream, a_intent, a_rewritten,
                   a_searches, a_results, a_prompt, a_llm, a_produced, a_out,
                   a_ci, a_ret, a_raised, searchVars, chunkVars, ingestVars, sideVars>>

\* faulty variant: the generator can be dropped while it is reading the stream
AtAnyPoint == apc \in {"gen_new", "streaming", "citing"}

\* the generator is suspended: it has not been started, or it stands at the
\* yield of a token (vakilbot.py:206), of the header (208) or of a citation
\* line (213)
AtYield ==
    \/ apc = "gen_new"
    \/ apc = "streaming" /\ a_produced # <<>> /\ a_produced[Len(a_produced)] # ""
    \/ apc = "citing"

\* the consumer stops pulling (api/main.py:43-46: the client of the
\* StreamingResponse goes away) and the suspended generator is dropped
ConsumerStops ==
    /\ AtYield
    /\ apc' = "abandoned"
    /\ UNCHANGED <<a_k, a_query, a_act_filter, a_stream, a_intent, a_rewritten,
                   a_searches, a_results, a_prompt, a_llm, a_produced, a_out,
                   a_ci, a_ret, a_raised, searchVars, chunkVars, ingestVars, sideVars>>

AnswerNext ==
    \/ Ask \/ RewriteOk \/ RewriteFail \/ FirstSearch \/ FallbackSearch
    \/ GenerateOk \/ GenerateFail \/ ReturnGenerator
    \/ StreamOpenOk \/ StreamOpenFail \/ StreamToken \/ StreamEmptyChunk
    \/ StreamFail \/ StreamEnd \/ YieldCitation \/ StreamDone
    \/ ConsumerStops

AnswerSpec == AnswerInit /\ [][AnswerNext]_vars

\* ---------------------------------------------------------------- answer claims
\* the act filter the first retrieval used
EffectiveAct == effective_act_filter(a_act_filter, a_intent)

\* the rewrite request has been made and retrieval has not started
AfterRewriteCall == a_llm # <<>> /\ a_searches = <<>>

\* C16: whether the rewriting collaborator answers or fails, no error
\* reaches the caller and the pipeline goes on to retrieval with a query; on
\* a failure that query is the original one.
C16_RewriteFailureFallsBack ==
    AfterRewriteCall =>
        /\ a_raised = <<>>
        /\ apc = "search"
        /\ a_rewritten \in {a_query, "rewritten " \o a_query}

\* any filter was applied to the first retrieval
FilterApplied == Truthy(EffectiveAct) \/ a_intent.tag_filter # NONE

\* the retrievals of the query are over
RetrievalOver == apc \notin {"idle", "await", "rewrite", "search", "fallback"}
                 /\ a_searches # <<>>

Unfiltered(args) ==
    /\ args.act_filter = NONE
    /\ args.tag_filter = NONE
    /\ args.doc_type_filter = NONE
    /\ args.year_range = NONE

\* C17: a second, unfiltered retrieval is made exactly when the first one
\* returned nothing and any filter, act or tag, was applied to it.
C17_FallbackIffEmptyAndFiltered ==
    /\ apc = "fallback" => (a_results = <<>> /\ FilterApplied)
    /\ (apc = "generate" /\ Len(a_searches) = 1)
          => ~(a_results = <<>> /\ FilterApplied)
    /\ Len(a_searches) = 2 => Unfiltered(a_searches[2])

\* C18: one call of answer makes at most two hybrid_search calls, the second
\* with the same query and k and no filter, and after the second the
\* pipeline builds the context, also from an empty result.
C18_FallbackAtMostOnce ==
    /\ Len(a_searches) <= 2
    /\ Len(a_searches) = 2 =>
          /\ Unfiltered(a_searches[2])
          /\ a_searches[2].query = a_searches[1].query
          /\ a_searches[2].k = a_searches[1].k
          /\ RetrievalOver
          /\ a_prompt = user_prompt(a_query, a_results)
          /\ a_results = <<>> =>
                Contains(a_prompt, "No relevant legal provisions found.")

\* a fallback that found nothing, and the answer streamed to its end
C18_Witness ==
    /\ Len(a_searches) = 2
    /\ a_results = <<>>
    /\ apc = "done"

\* the generation requests made so far
GenerationCalls == { i \in 1..Len(a_llm) : a_llm[i].model = "gpt-4o" }

\* the generation collaborator has failed
GenerationFailed == apc = "raised" /\ GenerationCalls # {}

\* the contents of the non-empty chunks, in order
RECURSIVE NonEmptyFrom(_, _)
NonEmptyFrom(q, i) ==
    IF i > Len(q) THEN <<>>
    ELSE (IF q[i] # "" THEN <<q[i]>> ELSE <<>>) \o NonEmptyFrom(q, i + 1)

NonEmpty(q) == NonEmptyFrom(q, 1)

\* the caller has no part of a citation summary
NoSummary == \A i \in 1..Len(a_out) : ~Contains(a_out[i], "Sources Retrieved")

\* C19 as stated: when generation fails the error reaches the caller, there
\* is one generation request, and the caller has no answer text and no
\* citation summary.
C19_NoPartialAnswer ==
    GenerationFailed =>
        /\ a_raised # <<>>
        /\ Cardinality(GenerationCalls) = 1
        /\ a_out = <<>>
        /\ a_ret \in {<<>>, "generator"}

\* C19 amended: when generation fails the error reaches the caller, there
\* is one generation request and no citation summary; in batch mode and at
\* the start of a stream the caller has no answer text, and mid-stream the
\* caller has exactly the tokens yielded before the failure.
C19_FailureSurfacesNoSummary ==
    GenerationFailed =>
        /\ a_raised # <<>>
        /\ Cardinality(GenerationCalls) = 1
        /\ NoSummary
        /\ a_ci = 0
        /\ a_out = NonEmpty(a_produced)
        /\ a_ret \in {<<>>, "generator"}
        /\ ~a_stream => (a_ret = <<>> /\ a_out = <<>>)

\* a stream that fails after one token and one chunk without content
C19_Witness ==
    /\ GenerationFailed
    /\ a_stream
    /\ Len(a_produced) = 2
    /\ Len(a_out) = 1

\* line i of the citation summary: result i in rank order
ExpectedLine(i) ==
    ToString(i) \o ". " \o a_results[i].act_name
    \o (IF a_results[i].section_number \notin {NONE, ""}
        THEN ", Section " \o a_results[i].section_number ELSE "")
    \o "\n"

ExpectedLines(n) == [i \in 1..n |-> ExpectedLine(i)]

Min3(n) == IF n < 3 THEN n ELSE 3

\* C20: a streamed answer is the tokens in the order produced, then, once
\* the stream is exhausted, the header and one line for each of the first
\* min(3, n) results in rank order, and nothing else.
C20_TokensThenSummary ==
    /\ apc = "streaming" => a_out = NonEmpty(a_produced)
    /\ apc = "citing" =>
          /\ a_ci <= Min3(Len(a_results))
          /\ a_out = NonEmpty(a_produced) \o <<SourcesHeader>> \o ExpectedLines(a_ci)
    /\ apc = "done" =>
          a_out = NonEmpty(a_produced) \o <<SourcesHeader>>
                  \o ExpectedLines(Min3(Len(a_results)))

\* two tokens, then the summary of the first three of four results
C20_Witness ==
    /\ apc = "done"
    /\ Len(a_results) = 4
    /\ Len(a_out) = 6
    /\ a_results[2].section_number = NONE

\* ---------------------------------------------------------------- ingestion run claims
\* a batch of the run could not be embedded: its call failed and no retry is left
BatchFailed ==
    /\ calls # <<>>
    /\ ~Last(calls).ok
    /\ (use_local \/ Exhausted(Last(calls).attempt))

\* C21: a batch that could not be embedded does not abort the run: no
\* exception ends it, and it goes on to the later batches and to completion.
C21_BatchFailureNotFatal ==
    BatchFailed => (raised = None /\ ipc \in Running \cup {"done"})

\* ---------------------------------------------------------------- chunk budget
\* the tokens of a chunk: its header, when it has one, and its body
ChunkTokens(c) == count_tokens(doc, c.content)

\* C24: a chunk over the budget has a body of exactly one sentence unit;
\* every other chunk has header tokens plus body tokens within max_tokens.
C24_OverBudgetOnlySingleSentence ==
    cpc = "done"
        => \A i \in 1..Len(chunks) :
              ChunkTokens(chunks[i]) > max_tokens
                  => Len(Units(Body(chunks[i]))) = 1

\* ---------------------------------------------------------------- _detect_intent alone
\* the queries tried: a word, alone or inside a sentence
IntentPrefixes == {"", "What is "}
IntentWords ==
    { act_hints[i][1] : i \in 1..Len(act_hints) } \cup {"bail", "IT Act", "BNSS"}
IntentSuffixes == {"", " punishment", " and bns"}
IntentQueries ==
    { p \o w \o x : p \in IntentPrefixes, w \in IntentWords, x \in IntentSuffixes }

\* a bot of the service and a query about to be given to _detect_intent
IntentInit ==
    /\ s_embedder = ApiEmbedder
    /\ s_call = <<>>
    /\ s_body = <<>>
    /\ s_lex = <<>>
    /\ s_vec = <<>>
    /\ s_hits = <<>>
    /\ s_ret = <<>>
    /\ spc = "ready"
    /\ a_k = 1
    /\ a_query \in IntentQueries
    /\ a_act_filter = <<>>
    /\ a_stream = FALSE
    /\ a_intent = <<>>
    /\ a_rewritten = <<>>
    /\ a_searches = <<>>
    /\ a_results = <<>>
    /\ a_prompt = <<>>
    /\ a_llm = <<>>
    /\ a_produced = <<>>
    /\ a_out = <<>>
    /\ a_ci = 0
    /\ a_ret = <<>>
    /\ a_raised = <<>>
    /\ apc = "intent"
    /\ batch_size = 1
    /\ use_local = FALSE
    /\ IngestIdle
    /\ ChunkIdle
    /\ SideIdle

\* _detect_intent, vakilbot.py:67-115, called on the query, and called on it
\* once more
DetectIntent ==
    /\ apc \in {"intent", "detected"}
    /\ a_intent' = detect_intent(a_query)
    /\ apc' = IF apc = "intent" THEN "detected" ELSE "detected again"
    /\ UNCHANGED <<a_k, a_query, a_act_filter, a_stream, a_rewritten, a_searches,
                   a_results, a_prompt, a_llm, a_produced, a_out, a_ci, a_ret,
                   a_raised, searchVars, chunkVars, ingestVars, sideVars>>

IntentNext == DetectIntent

IntentSpec == IntentInit /\ [][IntentNext]_vars

\* ---------------------------------------------------------------- intent claims
\* the table entries whose abbreviation occurs in the lower-cased query
HintsIn(query) ==
    { i \in 1..Len(act_hints) : Contains(Lower(query), act_hints[i][1]) }

\* the act of the entry that comes first in the table among those, none
\* when there is none
FirstHintAct(query) ==
    IF HintsIn(query) = {} THEN NONE
    ELSE act_hints[CHOOSE i \in HintsIn(query) :
                       \A j \in HintsIn(query) : i <= j][2]

IntentDetected == apc \in {"detected", "detected again"}

\* C23: act_filter is the act of the first table entry whose abbreviation
\* occurs in the lower-cased query, none when no entry occurs, and a second
\* call on the same query gives the same intent.
C23_FirstTableEntryWins ==
    /\ [](IntentDetected =>
            /\ a_intent.act_filter = FirstHintAct(a_query)
            /\ a_intent.detected_act_name = a_intent.act_filter)
    /\ [][apc = "detected" => a_intent' = a_intent]_vars

\* a query naming two acts, the later one in the text first in the table
C23_Witness ==
    /\ apc = "detected again"
    /\ a_query = "What is it act and bns"
    /\ a_intent.act_filter = "Bharatiya Nyay Sanhita, 2023"

\* C28: a query that is one table entry's abbreviation alone gets that
\* entry's act as act_filter.
C28_EveryActDetectable ==
    IntentDetected =>
        \A i \in 1..Len(act_hints) :
            a_query = act_hints[i][1] => a_intent.act_filter = act_hints[i][2]

\* ---------------------------------------------------------------- streaming claims
\* the consumer has received the header of the citation summary
HeaderReceived == \E i \in 1..Len(a_out) : a_out[i] = SourcesHeader

\* C25: once the consumer has stopped pulling, the generator has read from
\* the generation stream only the chunks needed for the items received (none
\* when nothing was pulled), has emitted nothing the consumer did not
\* receive, no citation summary after the stop among it, and nothing of the
\* query changes any more.
C25_StopIsQuiet ==
    /\ [](apc = "abandoned" =>
            /\ a_raised = <<>>
            /\ a_out = <<>> => (GenerationCalls = {} /\ a_produced = <<>>)
            /\ Cardinality(GenerationCalls) <= 1
            /\ ~HeaderReceived =>
                  /\ a_out = NonEmpty(a_produced)
                  /\ a_produced # <<>> => a_produced[Len(a_produced)] # ""
                  /\ NoSummary
                  /\ a_ci = 0
            /\ HeaderReceived =>
                  a_out = NonEmpty(a_produced) \o <<SourcesHeader>>
                          \o ExpectedLines(a_ci))
    /\ [][apc = "abandoned" => UNCHANGED vars]_vars

\* the consumer stops after its first item, a token that came after a chunk
\* without content
C25_Witness ==
    /\ apc = "abandoned"
    /\ Len(a_out) = 1
    /\ Len(a_produced) = 2
    /\ a_produced[1] = ""

RECURSIVE Concat(_)
\* "".join(items)
Concat(items) == IF items = <<>> THEN "" ELSE Head(items) \o Concat(Tail(items))

\* C27: the items of a finished streamed answer, concatenated, are the
\* string the batch answer gives for the same generated text and results.
C27_StreamEqualsBatch ==
    apc = "done" => Concat(a_out) = batch_answer(Concat(a_produced), a_results)

\* a finished stream of one token and one chunk without content over two
\* results
C27_Witness ==
    /\ apc = "done"
    /\ Len(a_results) = 2
    /\ Len(a_produced) = 2
    /\ Len(NonEmpty(a_produced)) = 1

\* ---------------------------------------------------------------- two ingestion workers
\* two processes run run_full_ingestion over the same CACHE_PATH
Workers == {"w1", "w2"}

\* the state of the single-process run, the cache file left out
runVars == <<batch_size, use_local, flushed, cache, texts, results, miss_indices,
             miss_texts, all_embeddings, bi, attempt, last_err, calls, sleeps,
             raised, rerun, ipc>>

\* the texts of a worker's chunks: one or two different texts
WorkerTexts ==
    { l \in TextLists : Len(l) \in 1..2 /\ \A i, j \in 1..Len(l) : l[i] = l[j] => i = j }

TextSet(l) == { l[i] : i \in 1..Len(l) }

RECURSIVE CacheAfter(_, _)
\* embed_with_cache, lines 47-68: the dict after the misses among ts are
\* embedded and stored; hits leave it as it is
CacheAfter(c, ts) ==
    IF ts = <<>> THEN c
    ELSE CacheAfter(IF text_hash(Head(ts)) \in DOMAIN c THEN c
                    ELSE MapPut(c, text_hash(Head(ts)), Encode(Head(ts))),
                    Tail(ts))

\* the cache file before the workers start: none, or one a run completed
WorkersInit ==
    /\ w_texts \in { f \in [Workers -> WorkerTexts] :
                        \A v, w \in Workers :
                            v # w => TextSet(f[v]) \cap TextSet(f[w]) = {} }
    /\ w_cache = [w \in Workers |-> EmptyMap]
    /\ w_pc = [w \in Workers |-> "start"]
    /\ \E ts \in {<<>>, <<"c">>} :
          disk = IF ts = <<>> THEN [state |-> "absent", data |-> EmptyMap]
                 ELSE [state |-> "complete", data |-> CacheAfter(EmptyMap, ts)]
    /\ batch_size = 1
    /\ use_local = FALSE
    /\ flushed = EmptyMap
    /\ cache = EmptyMap
    /\ texts = <<>>
    /\ results = <<>>
    /\ miss_indices = <<>>
    /\ miss_texts = <<>>
    /\ all_embeddings = <<>>
    /\ bi = 0
    /\ attempt = 0
    /\ last_err = None
    /\ calls = <<>>
    /\ sleeps = <<>>
    /\ raised = None
    /\ rerun = FALSE
    /\ ipc = "idle"
    /\ ChunkIdle
    /\ ServeIdle
    /\ CorpusIdle

\* run_full_ingestion, line 119: embedding_cache = _load_cache(); a file
\* another worker has open for writing makes pickle.load raise
WLoad(w) ==
    /\ w_pc[w] = "start"
    /\ IF LoadCache.ok
       THEN /\ w_cache' = [w_cache EXCEPT ![w] = LoadCache.cache]
            /\ w_pc' = [w_pc EXCEPT ![w] = "loaded"]
       ELSE /\ w_pc' = [w_pc EXCEPT ![w] = "failed"]
            /\ UNCHANGED w_cache
    /\ UNCHANGED <<w_texts, disk, runVars, chunkVars, serveVars, corpusVars>>

\* run_full_ingestion, line 158: embed_with_cache adds the worker's misses
WEmbed(w) ==
    /\ w_pc[w] = "loaded"
    /\ w_cache' = [w_cache EXCEPT ![w] = CacheAfter(w_cache[w], w_texts[w])]
    /\ w_pc' = [w_pc EXCEPT ![w] = "embedded"]
    /\ UNCHANGED <<w_texts, disk, runVars, chunkVars, serveVars, corpusVars>>

\* _save_cache, lines 30-31: open(CACHE_PATH, "wb") empties the file
WSaveOpen(w) ==
    /\ w_pc[w] = "embedded"
    /\ disk' = [state |-> "partial", data |-> EmptyMap]
    /\ w_pc' = [w_pc EXCEPT ![w] = "open"]
    /\ UNCHANGED <<w_texts, w_cache, runVars, chunkVars, serveVars, corpusVars>>

\* _save_cache, lines 32-33: pickle.dump writes the worker's dict from the
\* start of the file. A file that is complete again since this worker emptied
\* it was written through another handle while this one was open: the bytes
\* of the two writers are not ordered, and the file holds this worker's map
\* or a mix that does not load.
WSaveDump(w) ==
    /\ w_pc[w] = "open"
    /\ disk' \in { [state |-> "complete", data |-> w_cache[w]] }
                 \cup IF disk.state = "complete"
                      THEN { [state |-> "partial", data |-> EmptyMap] }
                      ELSE {}
    /\ w_pc' = [w_pc EXCEPT ![w] = "saved"]
    /\ UNCHANGED <<w_texts, w_cache, runVars, chunkVars, serveVars, corpusVars>>

WorkersNext ==
    \E w \in Workers : WLoad(w) \/ WEmbed(w) \/ WSaveOpen(w) \/ WSaveDump(w)

WorkersSpec == WorkersInit /\ [][WorkersNext]_vars

\* ---------------------------------------------------------------- worker claims
AllSaved == \A w \in Workers : w_pc[w] = "saved"

\* C22: when both workers have loaded, stored and saved, the cache file
\* holds the entries of the texts of both workers.
C22_BothWorkersEntriesKept ==
    AllSaved =>
        /\ disk.state = "complete"
        /\ \A w \in Workers : \A t \in TextSet(w_texts[w]) :
               /\ text_hash(t) \in DOMAIN disk.data
               /\ disk.data[text_hash(t)] = Encode(t)

\* ---------------------------------------------------------------- corpus run
\* act_mapping, run_ingestion.py:123-133: the act names of the first and the
\* third PDF, in the dict's order
act_mapping == <<"Bharatiya Nyay Sanhita, 2023", "Companies Act, 2013">>

\* what SECTION_PATTERN captures as the number of a section
ParsedSectionNumbers == {"1", "2A"}

RECURSIVE ReplaceFrom(_, _, _, _)
ReplaceFrom(s, old, new, i) ==
    IF i > Len(s) THEN ""
    ELSE (IF SubSeq(s, i, i) = old THEN new ELSE SubSeq(s, i, i))
         \o ReplaceFrom(s, old, new, i + 1)

\* str.replace(old, new) for a one-character old
Replace(s, old, new) == ReplaceFrom(s, old, new, 1)

\* _make_chunk, chunker.py:139
chunk_id(act_name, section_number, chunk_index) ==
    Lower(Replace(act_name \o "_" \o section_number \o "_" \o ToString(chunk_index),
                  " ", "_"))

\* _extract_sections, parser.py:88-124: one LegalDocument for every line
\* SECTION_PATTERN matches, with the number it captured; a contents line and
\* the section's own line, or a numbered item, give the same number twice
ParsedSections ==
    { [act_name |-> act_mapping[a], section_number |-> sn, content |-> ContentOf(n),
       sent_tokens |-> [i \in 1..MaxSentences |-> MaxSentenceTokens],
       header_tokens |-> 1] :
        a \in 1..Len(act_mapping), sn \in ParsedSectionNumbers, n \in {1, MaxSentences} }

ActIndex(name) == CHOOSE a \in 1..Len(act_mapping) : act_mapping[a] = name

\* the sections of the whole corpus: the PDFs are parsed in act_mapping's order
ParsedCorpora ==
    { ds \in UNION { [1..n -> ParsedSections] : n \in 0..MaxSections } :
        \A i, j \in 1..Len(ds) :
            i < j => ActIndex(ds[i].act_name) <= ActIndex(ds[j].act_name) }

\* the Chunk of _make_chunk, chunker.py:138-153, with the fields of its section
Chunk(d, c) ==
    [chunk_id |-> chunk_id(d.act_name, d.section_number, c.chunk_index),
     act_name |-> d.act_name, section_number |-> d.section_number,
     content |-> c.content, chunk_index |-> c.chunk_index,
     total_chunks |-> c.total_chunks]

RECURSIVE chunk_corpus(_)
\* chunk_corpus, chunker.py:155-158
chunk_corpus(documents) ==
    IF documents = <<>> THEN <<>>
    ELSE LET d == Head(documents)
             cs == chunk_document(d)
         IN  [i \in 1..Len(cs) |-> Chunk(d, cs[i])] \o chunk_corpus(Tail(documents))

RECURSIVE BulkFrom(_, _, _, _)
\* helpers.bulk, run_ingestion.py:168-180: the actions are applied in order,
\* each an index operation that creates or replaces the document with its _id
BulkFrom(index, cs, failing, i) ==
    IF i > Len(cs) THEN index
    ELSE BulkFrom(IF i \in failing THEN index
                  ELSE MapPut(index, cs[i].chunk_id, cs[i]),
                  cs, failing, i + 1)

CorpusInit ==
    /\ k_docs = <<>>
    /\ k_chunks = <<>>
    /\ es_index = EmptyMap
    /\ k_bulk = <<>>
    /\ k_count = 0
    /\ kpc = "start"
    /\ batch_size = 1
    /\ use_local = FALSE
    /\ IngestIdle
    /\ ChunkIdle
    /\ ServeIdle
    /\ WorkersIdle

\* run_full_ingestion, lines 136-145: parse_pdf over the PDFs
ParseCorpus ==
    /\ kpc = "start"
    /\ k_docs' \in ParsedCorpora
    /\ kpc' = "parsed"
    /\ UNCHANGED <<k_chunks, es_index, k_bulk, k_count, workerVars, chunkVars,
                   ingestVars, serveVars>>

\* run_full_ingestion, lines 148-151
ChunkCorpus ==
    /\ kpc = "parsed"
    /\ k_chunks' = chunk_corpus(k_docs)
    /\ kpc' = "chunked"
    /\ UNCHANGED <<k_docs, es_index, k_bulk, k_count, workerVars, chunkVars,
                   ingestVars, serveVars>>

\* run_full_ingestion, lines 168-181: one bulk request, at most one action
\* of it rejected (raise_on_error=False collects it)
BulkIndex ==
    /\ kpc = "chunked"
    /\ \E failing \in {{}} \cup { {i} : i \in 1..Len(k_chunks) } :
          /\ es_index' = BulkFrom(es_index, k_chunks, failing, 1)
          /\ k_bulk' = [success |-> Len(k_chunks) - Cardinality(failing),
                        errors |-> failing]
    /\ kpc' = "indexed"
    /\ UNCHANGED <<k_docs, k_chunks, k_count, workerVars, chunkVars, ingestVars,
                   serveVars>>

\* run_full_ingestion, line 184: es.count
VerifyCount ==
    /\ kpc = "indexed"
    /\ k_count' = Cardinality(DOMAIN es_index)
    /\ kpc' = "done"
    /\ UNCHANGED <<k_docs, k_chunks, es_index, k_bulk, workerVars, chunkVars,
                   ingestVars, serveVars>>

CorpusNext == ParseCorpus \/ ChunkCorpus \/ BulkIndex \/ VerifyCount

CorpusSpec == CorpusInit /\ [][CorpusNext]_vars

\* ---------------------------------------------------------------- corpus claims
\* C26: in a finished run without rejected actions the chunks at different
\* positions of all_chunks have different chunk ids, every chunk is the
\* document stored under its id, and the index counts one document per chunk.
C26_OneDocumentPerChunk ==
    (kpc = "done" /\ k_bulk.errors = {}) =>
        /\ \A i, j \in 1..Len(k_chunks) :
               k_chunks[i].chunk_id = k_chunks[j].chunk_id => i = j
        /\ \A i \in 1..Len(k_chunks) : es_index[k_chunks[i].chunk_id] = k_chunks[i]
        /\ k_count = Len(k_chunks)

====
